---- MODULE Spec2Model ----
(***************************************************************************)
(* gubernator (g8r): the filesystem cache (filesystemcache.go), the build  *)
(* driver (BuildRecursive / Build) and the freezer (freeze.go), as state   *)
(* machines.                                                               *)
(*                                                                         *)
(*   Spec        several processes issuing NewFileEntry, NewDirEntry and   *)
(*               MoveFile against one cache root, one access to the root   *)
(*               a step                                                    *)
(*   SpecBuild   BuildRecursive run MaxRuns times, one run after the       *)
(*               other, over a derivation graph                            *)
(*   SpecBuildOnce  the same, run once (what buildTarget does)             *)
(*   SpecFreeze  FreezeTarget run MaxRuns times over one package root      *)
(***************************************************************************)
EXTENDS Integers, Sequences, FiniteSets, TLC

VARIABLES
    root,       \* the cache root: key -> node (Absent, a file, a directory)
    stage,      \* per process: the temp artifact of withTmpArtifact (tmpPath)
    src,        \* per process: the node at MoveFile's src path
    cop,        \* per process: the cache operation in progress and its position
    whole,      \* history: key -> the complete node last renamed to root/key
    first,      \* history: key -> the node root/key held when it first existed
    stack,      \* per process: BuildRecursive's call stack, frames [d, i, seen]
    bpc,        \* per process: the build driver's position
    bld,        \* per process: the Build call in progress
    runs,       \* per process: the errors returned by its completed top-level runs
    invoked,    \* history: derivation -> number of builder invocations
    commits,    \* history: derivation -> number of renames to root/d.ID
    snaps,      \* history, per process: the state at the call of each top-level run
    hist,       \* history: temp dirs created, whether every builder run went well
    graph,      \* the derivation graph: derivation -> its Dependencies list
    tmpDirBase, \* where Build makes its temp dirs: on the file system of the
                \* cache root ("cache") or on another one ("other")
    pkg,        \* the package root: relpath -> [bytes, mode]
    target,     \* the target given to FreezeTarget
    fruns,      \* the results of the completed FreezeTarget runs
    fz,         \* the FreezeTarget run in progress and what the file system
                \* has answered it: [pc, enum, reads]
    scripts,    \* the module files: path -> the addresses its script loads
    cache,      \* the loader's cache: address -> unset, nil or a cacheEntry
    calls,      \* the load calls in progress, the innermost last
    ret,        \* what the load call that returned last has returned
    got,        \* history: address -> what each load of it returned
    ran         \* history: address -> the reads and executions of its file

cacheVars  == <<root, stage, src, cop, whole, first>>
buildVars  == <<stack, bpc, bld, runs, invoked, commits, snaps, hist, graph, tmpDirBase>>
freezeVars == <<pkg, target, fruns, fz>>
loadVars   == <<scripts, cache, calls, ret, got, ran>>
vars == <<cacheVars, buildVars, freezeVars, loadVars>>

----------------------------------------------------------------------------
(* Bounds *)

\* files a directory artifact may hold
MaxFiles == 2
\* keys of the cache that the writers of Spec target
MaxKeys == 1

Procs == {1, 2}
Keys == 1..MaxKeys
RelPaths == 1..MaxFiles
Bodies == {"a", "b"}

----------------------------------------------------------------------------
(* File modes: an os.FileMode is the set of its bit positions that are 1.  *)

ModeBits == 0..31

\* the bit set of a number below 2^31
Bits(n) == {i \in 0..30 : (n \div (2^i)) % 2 = 1}

ModeDir == {31}
WriteBits == Bits(146)      \* 0o222

\* the process umask: the usual 0o022
Umask == Bits(18)

\* os.Create: OpenFile(name, O_RDWR|O_CREATE|O_TRUNC, 0666), less the umask
CreateMode == Bits(438) \ Umask

\* os.MkdirAll(path, 0744), less the umask
MkdirMode == (Bits(484) \ Umask) \cup ModeDir

----------------------------------------------------------------------------
(* Nodes of the file system *)

Absent == [kind |-> "none"]
File(body, mode) == [kind |-> "file", body |-> body, mode |-> mode]
Dir(files, mode) == [kind |-> "dir", files |-> files, mode |-> mode]

\* os.Rename(src, dst) of rename(2): the error, or "ok".  envFail: the two
\* paths are on different file systems (or any other failure of the call).
RenameErr(s, d, envFail) ==
    IF s.kind = "none" THEN "ENOENT"
    ELSE IF envFail THEN "EXDEV"
    ELSE IF d.kind = "none" THEN "ok"
    ELSE IF s.kind = "file" THEN (IF d.kind = "dir" THEN "EISDIR" ELSE "ok")
    ELSE IF d.kind = "file" THEN "ENOTDIR"
    ELSE IF DOMAIN d.files = {} THEN "ok"
    ELSE "ENOTEMPTY"

\* os.IsExist
IsExist(err) == err \in {"EEXIST", "ENOTEMPTY"}

\* FileSystemCache.Exists: os.Stat(root/key) succeeds
\* a cache whose Exists never finds an entry
ExistsNever(r, key) == FALSE

Exists(r, key) == r[key].kind # "none"

----------------------------------------------------------------------------
(* The cache operations.  A step is one access to the shared cache root    *)
(* together with the process-private work (the temp artifact, the source   *)
(* of MoveFile) that precedes it.  cop[p]:                                 *)
(*   op     "none", "put_file", "put_dir", "move_file"                     *)
(*   pc     "idle", "fallback", "commit", "rmdst", "retry", "done"         *)
(*   key    what nameCallback() returns                                    *)
(*   err    the error returned ("" for nil)                                *)
(*   cause  MoveFile: the error of its first rename                        *)

Idle == [op |-> "none", pc |-> "idle", key |-> 0, err |-> "", cause |-> "", names |-> 0]

Goto(p, pc) == cop' = [cop EXCEPT ![p].pc = pc]

Return(p, err) == cop' = [cop EXCEPT ![p].pc = "done", ![p].err = err]

\* the bookkeeping of a rename of node n to root/k
Committed(k, n) ==
    /\ whole' = [whole EXCEPT ![k] = n]
    /\ first' = [first EXCEPT ![k] = IF first[k].kind = "none" THEN n ELSE first[k]]

\* a NewFileEntry that asks for the name before it calls the callback
NewFileEntryNamed(p, k, body, ok) ==
    /\ cop[p].pc = "idle"
    /\ IF ok
       THEN /\ stage' = [stage EXCEPT ![p] = File(body, CreateMode)]
            /\ cop' = [cop EXCEPT ![p] = [Idle EXCEPT !.op = "put_file",
                                             !.pc = "commit", !.key = k, !.names = 1]]
       ELSE /\ stage' = [stage EXCEPT ![p] = Absent]
            /\ cop' = [cop EXCEPT ![p] = [Idle EXCEPT !.op = "put_file",
                                             !.pc = "done", !.err = "callback",
                                             !.names = 1]]
    /\ UNCHANGED <<root, src, whole, first>>

\* NewFileEntry(cacheFileCallback, nameCallback) up to the commit: os.Create of
\* the temp file and the callback, which writes body; ok: the callback
\* returns nil.  If not, withTmpArtifact removes the temp file and returns.
NewFileEntry(p, k, body, ok) ==
    /\ cop[p].pc = "idle"
    /\ IF ok
       THEN /\ stage' = [stage EXCEPT ![p] = File(body, CreateMode)]
            /\ cop' = [cop EXCEPT ![p] = [Idle EXCEPT !.op = "put_file",
                                             !.pc = "commit", !.key = k]]
       ELSE /\ stage' = [stage EXCEPT ![p] = Absent]
            /\ cop' = [cop EXCEPT ![p] = [Idle EXCEPT !.op = "put_file",
                                             !.pc = "done", !.err = "callback"]]
    /\ UNCHANGED <<root, src, whole, first>>

\* the temp directory after registerFile was called for each path of S:
\* MkdirAll(tmpDirPath), then per file MkdirAll, os.Create, callback(file)
Registered(S) == Dir([r \in S |-> File("a", CreateMode)], MkdirMode)

\* NewDirEntry(cacheDirCallback, nameCallback) up to the commit; the callback
\* registers the files S; ok: it returns nil.  If not, withTmpArtifact
\* removes the temp directory and returns the error.
NewDirEntry(p, k, S, ok) ==
    /\ cop[p].pc = "idle"
    /\ IF ok
       THEN /\ stage' = [stage EXCEPT ![p] = Registered(S)]
            /\ cop' = [cop EXCEPT ![p] = [Idle EXCEPT !.op = "put_dir",
                                             !.pc = "commit", !.key = k]]
       ELSE /\ stage' = [stage EXCEPT ![p] = Absent]
            /\ cop' = [cop EXCEPT ![p] = [Idle EXCEPT !.op = "put_dir",
                                             !.pc = "done", !.err = "callback"]]
    /\ UNCHANGED <<root, src, whole, first>>

\* MoveFile(src, dst), node n at src: os.Rename(src, root/dst); on any error
\* the fallback (NewFileEntry with the copying callback) is entered
MoveFile(p, k, n, envFail) ==
    /\ cop[p].pc = "idle"
    /\ LET e == RenameErr(n, root[k], envFail)
       IN IF e = "ok"
          THEN /\ root' = [root EXCEPT ![k] = n]
               /\ src' = [src EXCEPT ![p] = Absent]
               /\ Committed(k, n)
               /\ cop' = [cop EXCEPT ![p] = [Idle EXCEPT !.op = "move_file",
                                                !.pc = "done", !.key = k]]
          ELSE /\ src' = [src EXCEPT ![p] = n]
               /\ cop' = [cop EXCEPT ![p] = [Idle EXCEPT !.op = "move_file",
                                                !.pc = "fallback", !.key = k,
                                                !.cause = e]]
               /\ UNCHANGED <<root, whole, first>>
    /\ UNCHANGED stage

\* MoveFile's fallback up to the commit: os.Create of the temp file, then the
\* callback: os.Open(src), io.Copy(w, file), file.Close(), os.RemoveAll(src).
\* When the callback fails, withTmpArtifact removes the temp file.
CopyCallback(p) ==
    /\ cop[p].pc = "fallback"
    /\ IF src[p].kind = "file"
       THEN /\ stage' = [stage EXCEPT ![p] = File(src[p].body, CreateMode)]
            /\ src' = [src EXCEPT ![p] = Absent]
            /\ Goto(p, "commit")
       ELSE /\ stage' = [stage EXCEPT ![p] = Absent]
            /\ Return(p, IF src[p].kind = "none" THEN "ENOENT" ELSE "EISDIR")
            /\ UNCHANGED src
    /\ UNCHANGED <<root, whole, first>>

\* the outcome of withTmpArtifact's os.Rename(tmpPath, cachePath)
CommitErr(p, envFail) == RenameErr(stage[p], root[cop[p].key], envFail)

\* withTmpArtifact: nameCallback() and the first os.Rename(tmpPath, cachePath)
CommitRename(p, envFail) ==
    /\ cop[p].pc = "commit"
    /\ LET k == cop[p].key
           e == CommitErr(p, envFail)
       IN IF e = "ok"
          THEN /\ root' = [root EXCEPT ![k] = stage[p]]
               /\ stage' = [stage EXCEPT ![p] = Absent]
               /\ Committed(k, stage[p])
               /\ cop' = [cop EXCEPT ![p].pc = "done", ![p].err = "",
                                     ![p].names = @ + 1]
          ELSE /\ cop' = [cop EXCEPT ![p].pc = IF IsExist(e) THEN "rmdst" ELSE "done",
                                     ![p].err = IF IsExist(e) THEN @ ELSE e,
                                     ![p].names = @ + 1]
               /\ UNCHANGED <<root, stage, whole, first>>
    /\ UNCHANGED src

\* withTmpArtifact: os.RemoveAll(cachePath), one unlink or rmdir a step
RemoveAllDst(p) ==
    /\ cop[p].pc = "rmdst"
    /\ LET k == cop[p].key
           n == root[k]
       IN IF n.kind = "dir" /\ DOMAIN n.files # {}
          THEN /\ \E r \in DOMAIN n.files :
                     root' = [root EXCEPT ![k].files =
                                 [x \in DOMAIN n.files \ {r} |-> n.files[x]]]
               /\ UNCHANGED cop
          ELSE /\ root' = [root EXCEPT ![k] = Absent]
               /\ Goto(p, "retry")
    /\ UNCHANGED <<stage, src, whole, first>>

\* withTmpArtifact: the second os.Rename(tmpPath, cachePath)
RetryRename(p, envFail) ==
    /\ cop[p].pc = "retry"
    /\ LET k == cop[p].key
           e == CommitErr(p, envFail)
       IN IF e = "ok"
          THEN /\ root' = [root EXCEPT ![k] = stage[p]]
               /\ stage' = [stage EXCEPT ![p] = Absent]
               /\ Committed(k, stage[p])
               /\ Return(p, "")
          ELSE /\ Return(p, e)
               /\ UNCHANGED <<root, stage, whole, first>>
    /\ UNCHANGED src

\* the operation returns to its caller, which goes on to its next operation
\* (and no longer looks at what the operation left behind)
CacheReturn(p) ==
    /\ cop[p].pc = "done"
    /\ cop' = [cop EXCEPT ![p] = Idle]
    /\ src' = [src EXCEPT ![p] = Absent]
    /\ stage' = [stage EXCEPT ![p] = Absent]
    /\ UNCHANGED <<root, whole, first>>

----------------------------------------------------------------------------
(* Spec: the writers of one cache root *)

\* the complete file entries a writer may produce
FileEntries == {File(b, CreateMode) : b \in Bodies}

\* the mode makeImmutable leaves on a file and on a directory
ReadOnly == Bits(292)
ReadOnlyDir == Bits(365) \cup ModeDir

\* what may be at the src of MoveFile: nothing, a file, a directory
Sources == {Absent, File("b", ReadOnly),
            Dir([r \in RelPaths |-> File("a", ReadOnly)], ReadOnlyDir)}

\* the variables of the other specifications, at rest
CacheOff ==
    /\ stage = <<>> /\ src = <<>> /\ cop = <<>>
    /\ whole = <<>> /\ first = <<>>
BuildOff ==
    /\ stack = <<>> /\ bpc = <<>> /\ bld = <<>> /\ runs = <<>>
    /\ invoked = <<>> /\ commits = <<>> /\ snaps = <<>> /\ hist = <<>>
    /\ graph = <<>> /\ tmpDirBase = <<>>
FreezeOff ==
    /\ pkg = <<>> /\ target = <<>> /\ fruns = <<>> /\ fz = <<>>
LoadOff ==
    /\ scripts = <<>> /\ cache = <<>> /\ calls = <<>> /\ ret = <<>>
    /\ got = <<>> /\ ran = <<>>

Init ==
    /\ root \in [Keys -> {Absent} \cup FileEntries \cup {Registered(RelPaths)}]
    /\ stage = [p \in Procs |-> Absent]
    /\ src = [p \in Procs |-> Absent]
    /\ cop = [p \in Procs |-> Idle]
    /\ whole = root
    /\ first = root
    /\ BuildOff
    /\ FreezeOff
    /\ LoadOff

others == <<buildVars, freezeVars, loadVars>>

Next ==
    \/ \E p \in Procs, k \in Keys, b \in Bodies, ok \in BOOLEAN :
          NewFileEntry(p, k, b, ok) /\ UNCHANGED others
    \/ \E p \in Procs, k \in Keys, S \in SUBSET RelPaths, ok \in BOOLEAN :
          NewDirEntry(p, k, S, ok) /\ UNCHANGED others
    \/ \E p \in Procs, k \in Keys, n \in Sources, envFail \in BOOLEAN :
          MoveFile(p, k, n, envFail) /\ UNCHANGED others
    \/ \E p \in Procs : CopyCallback(p) /\ UNCHANGED others
    \/ \E p \in Procs, envFail \in BOOLEAN :
          CommitRename(p, envFail) /\ UNCHANGED others
    \/ \E p \in Procs : RemoveAllDst(p) /\ UNCHANGED others
    \/ \E p \in Procs, envFail \in BOOLEAN :
          RetryRename(p, envFail) /\ UNCHANGED others
    \/ \E p \in Procs : CacheReturn(p) /\ UNCHANGED others

Spec == Init /\ [][Next]_vars

\* the directories of the command-line tool: os.TempDir(), which is $TMPDIR
\* or /tmp, and $HOME/.cache/gubernator
SystemTemp == "tmp"
CacheDir == "home/.cache/gubernator"

\* FileSystemCacheFromTempDir(root): tmpDir is ioutil.TempDir("", ""), a new
\* directory under os.TempDir()
FileSystemCacheFromTempDir(dir) == [root |-> dir, tmpDir |-> SystemTemp]

\* the file system each of the two directories is on
Mounts == [{SystemTemp, CacheDir} -> {"disk", "tmpfs"}]

\* rename(2) from fsc.tmpDir to fsc.root crosses file systems
CrossDevice(fsc, mount) == mount[fsc.tmpDir] # mount[fsc.root]

\* SpecPut: one writer that puts file and directory entries into the cache
\* main makes, FileSystemCacheFromTempDir(cacheDir)
NextPut ==
    \/ \E k \in Keys, b \in Bodies, ok \in BOOLEAN :
          NewFileEntry(1, k, b, ok) /\ UNCHANGED others
    \/ \E k \in Keys, S \in SUBSET RelPaths, ok \in BOOLEAN :
          NewDirEntry(1, k, S, ok) /\ UNCHANGED others
    \/ \E mount \in Mounts :
          CommitRename(1, CrossDevice(FileSystemCacheFromTempDir(CacheDir), mount))
          /\ UNCHANGED others
    \/ RemoveAllDst(1) /\ UNCHANGED others
    \/ \E mount \in Mounts :
          RetryRename(1, CrossDevice(FileSystemCacheFromTempDir(CacheDir), mount))
          /\ UNCHANGED others
    \/ CacheReturn(1) /\ UNCHANGED others

SpecPut == Init /\ [][NextPut]_vars

----------------------------------------------------------------------------
(* The cache: claims *)

\* no cache operation is in progress
Quiet == \A p \in DOMAIN cop : cop[p].pc \in {"idle", "done"}

\* C1: at every step of NewFileEntry, NewDirEntry and MoveFile, by any number
\* of writers and wherever a writer stops, every key of the root is absent or
\* holds a complete entry: the whole node that was last renamed to it.
CacheAtomicity ==
    \A k \in DOMAIN root : root[k] = Absent \/ root[k] = whole[k]

\* the content of a node, its modes left out: the bytes of a file, the
\* files of a directory with their bytes
Content(n) ==
    IF n.kind = "file" THEN <<"file", n.body>>
    ELSE IF n.kind = "dir" THEN <<"dir", [r \in DOMAIN n.files |-> n.files[r].body]>>
    ELSE <<"none">>

\* C2: once a key holds content C, it holds C after any further sequence of
\* cache operations: whenever no operation is in progress, every key that
\* ever held an entry holds the content it held first.
EntriesImmutable ==
    Quiet => \A k \in DOMAIN root :
                first[k] = Absent \/ Content(root[k]) = Content(first[k])

----------------------------------------------------------------------------
(* The build driver: BuildRecursive and Build *)

\* derivations of the graph; Top is the one BuildRecursive is called with
NDeriv == 3
\* length of a Dependencies list
MaxDeps == 2
\* top-level BuildRecursive runs
MaxRuns == 2

Derivs == 1..NDeriv
Top == NDeriv
BProcs == {1}

Range(t) == {t[i] : i \in 1..Len(t)}

\* the lists of at most n elements of S
RECURSIVE ListsUpTo(_, _)
ListsUpTo(S, n) ==
    IF n = 0 THEN {<<>>}
    ELSE LET shorter == ListsUpTo(S, n - 1)
         IN shorter \cup {Append(t, x) : t \in {u \in shorter : Len(u) = n - 1},
                                         x \in S}

\* the acyclic graphs over the first n derivations: a derivation depends on
\* derivations of lower number, listed in any order
RECURSIVE GraphsOf(_)
GraphsOf(n) ==
    IF n = 0 THEN {<<>>}
    ELSE {Append(g, t) : g \in GraphsOf(n - 1),
                         t \in {u \in ListsUpTo(1..(n - 1), MaxDeps) :
                                   Cardinality(Range(u)) = Len(u)}}
Graphs == GraphsOf(NDeriv)

\* errors: nil, or what the error is of and the builder output it carries
Nil == [kind |-> "nil", output |-> ""]
Err(kind, output) == [kind |-> kind, output |-> output]

\* derivation.Env entries and the paths of the Build
CacheRoot == "root"
TmpOut == "tmp/out"
Envs == {<<>>, <<<<"A", "1">>>>, <<<<"out", "X">>>>,
         <<<<"cachePath", "Y">>, <<"out", "X">>>>,
         <<<<"out", "X">>, <<"A", "1">>, <<"cachePath", "Y">>>>}

Min(a, b) == IF a < b THEN a ELSE b

\* what the comment in Build describes: the two bindings put first
EnvPrepended(env) == <<<<"cachePath", CacheRoot>>, <<"out", TmpOut>>>> \o env

\* Build: envCopy := make([]string, len(d.Env)+2); copy(envCopy[:len-1], d.Env);
\* envCopy[len-1] = "out=" + tmpOutPath; envCopy[len-2] = "cachePath=" + Root()
EnvCopy(env) ==
    LET n == Len(env) + 2
        made == [i \in 1..n |-> <<"", "">>]
        copied == [i \in 1..n |-> IF i <= Min(n - 1, Len(env)) THEN env[i] ELSE made[i]]
        withOut == [copied EXCEPT ![n] = <<"out", TmpOut>>]
    IN [withOut EXCEPT ![n - 1] = <<"cachePath", CacheRoot>>]

\* what a builder may leave at $out: nothing, a writable file, a directory
\* tree with writable members
BuilderOutputs ==
    {Absent, File("b", Bits(420)),
     Dir(1 :> File("a", Bits(420))
           @@ 2 :> Dir(1 :> File("a", Bits(436)), Bits(509) \cup ModeDir),
         Bits(493) \cup ModeDir)}

\* makeImmutableHelper's immutableMask: ^os.FileMode(0b111111111) | 0b101101101
ImmutableMask == (ModeBits \ (0..8)) \cup Bits(365)

\* makeImmutableHelper(path, fi): the members of a directory first, then
\* os.Chmod(path, fi.Mode() & immutableMask)
RECURSIVE makeImmutableHelper(_)
makeImmutableHelper(n) ==
    IF n.kind = "dir"
    THEN Dir([r \in DOMAIN n.files |-> makeImmutableHelper(n.files[r])],
             n.mode \cap ImmutableMask)
    ELSE File(n.body, n.mode \cap ImmutableMask)

\* the error MoveFile returns: errors.Wrapf of the fallback's error, which is
\* nil for nil and otherwise a pkg/errors value around the os error
MoveFileErr(e) == [nil |-> e = "", wrapped |-> e # "", errno |-> e]

\* os.IsNotExist(err): looks through the os package's own error types only,
\* never through a pkg/errors wrapper
IsNotExist(err) == ~err.nil /\ ~err.wrapped /\ err.errno = "ENOENT"

\* a Build that ignores the error of cmd.Run()
RunNeverFailed(exit) == FALSE

\* whether the builder's exit makes cmd.Run() return an error
RunFailed(exit) == exit # 0

\* a loop over d.Dependencies from the last to the first
DepAtReversed(deps, i) == deps[Len(deps) - i + 1]

\* the i-th dependency of the loop over d.Dependencies
DepAt(deps, i) == deps[i]

Frame(d) == [d |-> d, i |-> 1, seen |-> <<>>]
TopFrame(p) == stack[p][Len(stack[p])]
\* bld[p], the Build in progress: tmp (the temp dir exists), env (d.Env),
\* childEnv (cmd.Env), exit and printed (of the builder), made (the builder
\* left something at $out), moved (MoveFile was called), err (what Build
\* returns), before (the cache root when Build was called)
NoBuild == [tmp |-> FALSE, env |-> <<>>, childEnv |-> <<>>, exit |-> 0,
            printed |-> "", made |-> FALSE, err |-> Nil, moved |-> FALSE,
            before |-> <<>>]

\* a BuildRecursive that goes on with the next dependency whatever the call
\* for a dependency returned
DeliverIgnored(p, err) ==
    LET st == stack[p]
        rest == SubSeq(st, 1, Len(st) - 1)
    IN IF rest = <<>>
       THEN /\ stack' = [stack EXCEPT ![p] = <<>>]
            /\ runs' = [runs EXCEPT ![p] = Append(runs[p], err)]
            /\ bpc' = [bpc EXCEPT ![p] = "idle"]
       ELSE /\ stack' = [stack EXCEPT ![p] =
                           SubSeq(rest, 1, Len(rest) - 1) \o
                           <<[rest[Len(rest)] EXCEPT
                                 !.i = @ + 1,
                                 !.seen = Append(@, st[Len(st)].d)]>>]
            /\ bpc' = [bpc EXCEPT ![p] = "deps"]
            /\ UNCHANGED runs

\* the BuildRecursive call of the top frame returns err: an error goes up
\* through every caller; nil lets the caller go on with its next dependency
Deliver(p, err) ==
    LET st == stack[p]
        rest == SubSeq(st, 1, Len(st) - 1)
    IN IF err # Nil \/ rest = <<>>
       THEN /\ stack' = [stack EXCEPT ![p] = <<>>]
            /\ runs' = [runs EXCEPT ![p] = Append(runs[p], err)]
            /\ bpc' = [bpc EXCEPT ![p] = "idle"]
       ELSE /\ stack' = [stack EXCEPT ![p] =
                           SubSeq(rest, 1, Len(rest) - 1) \o
                           <<[rest[Len(rest)] EXCEPT
                                 !.i = @ + 1,
                                 !.seen = Append(@, st[Len(st)].d)]>>]
            /\ bpc' = [bpc EXCEPT ![p] = "deps"]
            /\ UNCHANGED runs

\* BuildRecursive(fsc, d, tmpDirBase) is called for the top derivation
BRCall(p) ==
    /\ bpc[p] = "idle"
    /\ stack' = [stack EXCEPT ![p] = <<Frame(Top)>>]
    /\ bpc' = [bpc EXCEPT ![p] = "check"]
    /\ snaps' = [snaps EXCEPT ![p] = Append(@, [root |-> root, invoked |-> invoked,
                                                 commits |-> commits, tmps |-> hist.tmps])]
    /\ UNCHANGED <<cacheVars, bld, runs, invoked, commits, hist, graph, tmpDirBase>>

\* a BuildRecursive that consults the cache for the top derivation only
BRCheckTopOnly(p) ==
    /\ bpc[p] = "check"
    /\ IF Len(stack[p]) = 1 /\ Exists(root, TopFrame(p).d)
       THEN Deliver(p, Nil)
       ELSE /\ bpc' = [bpc EXCEPT ![p] = "deps"]
            /\ UNCHANGED <<stack, runs>>
    /\ UNCHANGED <<cacheVars, bld, invoked, commits, snaps, hist, graph, tmpDirBase>>

\* BuildRecursive: fsc.Exists(d.ID); if it exists, return nil
BRCheck(p) ==
    /\ bpc[p] = "check"
    /\ IF Exists(root, TopFrame(p).d)
       THEN Deliver(p, Nil)
       ELSE /\ bpc' = [bpc EXCEPT ![p] = "deps"]
            /\ UNCHANGED <<stack, runs>>
    /\ UNCHANGED <<cacheVars, bld, invoked, commits, snaps, hist, graph, tmpDirBase>>

\* BuildRecursive: the loop over d.Dependencies, then Build
BRDeps(p) ==
    /\ bpc[p] = "deps"
    /\ LET f == TopFrame(p)
       IN IF f.i <= Len(graph[f.d])
          THEN /\ stack' = [stack EXCEPT ![p] = Append(@, Frame(DepAt(graph[f.d], f.i)))]
               /\ bpc' = [bpc EXCEPT ![p] = "check"]
          ELSE /\ bpc' = [bpc EXCEPT ![p] = "build"]
               /\ UNCHANGED stack
    /\ UNCHANGED <<cacheVars, bld, runs, invoked, commits, snaps, hist, graph, tmpDirBase>>

\* Build up to cmd.Run(): ioutil.TempDir(tmpDirBase, "*"), the deferred
\* removal registered, exec.Command and cmd.Env, for derivation env `env`
BuildTempDir(p, env) ==
    /\ bpc[p] = "build"
    /\ bld' = [bld EXCEPT ![p] = [NoBuild EXCEPT !.tmp = TRUE, !.before = root,
                                               !.env = env, !.childEnv = EnvCopy(env)]]
    /\ hist' = [hist EXCEPT !.tmps = @ + 1]
    /\ bpc' = [bpc EXCEPT ![p] = "run"]
    /\ UNCHANGED <<cacheVars, stack, runs, invoked, commits, snaps, graph, tmpDirBase>>

\* Build: cmd.Run(); the builder exits with `exit`, leaves `out` at $out and
\* has printed `printed`
BuildRun(p, exit, out, printed) ==
    /\ bpc[p] = "run"
    /\ invoked' = [invoked EXCEPT ![TopFrame(p).d] = @ + 1]
    /\ src' = [src EXCEPT ![p] = out]
    /\ hist' = [hist EXCEPT !.clean = @ /\ exit = 0 /\ out # Absent]
    /\ bld' = [bld EXCEPT ![p].env = <<>>, ![p].childEnv = <<>>,
                          ![p].exit = exit, ![p].printed = printed,
                          ![p].made = (out # Absent),
                          ![p].err = IF RunFailed(exit) THEN Err("builder", printed)
                                     ELSE Nil]
    /\ bpc' = [bpc EXCEPT ![p] = IF RunFailed(exit) THEN "cleanup" ELSE "chmod"]
    /\ UNCHANGED <<root, stage, cop, whole, first, stack, runs, commits, snaps, graph, tmpDirBase>>

\* Build: makeImmutable(tmpOutPath): os.Stat, then makeImmutableHelper
BuildChmod(p) ==
    /\ bpc[p] = "chmod"
    /\ IF src[p] = Absent
       THEN /\ bld' = [bld EXCEPT ![p].err = Err("chmod", "")]
            /\ bpc' = [bpc EXCEPT ![p] = "cleanup"]
            /\ UNCHANGED src
       ELSE /\ src' = [src EXCEPT ![p] = makeImmutableHelper(src[p])]
            /\ bpc' = [bpc EXCEPT ![p] = "move"]
            /\ UNCHANGED bld
    /\ UNCHANGED <<root, stage, cop, whole, first, stack, runs, invoked, commits,
                   snaps, hist, graph, tmpDirBase>>

\* the renames to root/d.ID counted
Counted(p, d) ==
    commits' = [commits EXCEPT ![d] = IF root'[d] # root[d] THEN @ + 1 ELSE @]

\* Build: fsc.MoveFile(tmpOutPath, d.ID) is called; its rename fails when the
\* temp dir is on another file system
BuildMove(p) ==
    /\ bpc[p] = "move"
    /\ MoveFile(p, TopFrame(p).d, src[p], tmpDirBase = "other")
    /\ Counted(p, TopFrame(p).d)
    /\ bpc' = [bpc EXCEPT ![p] = "moving"]
    /\ bld' = [bld EXCEPT ![p].moved = TRUE]
    /\ UNCHANGED <<stack, runs, invoked, snaps, hist, graph, tmpDirBase>>

\* MoveFile's fallback runs its copy callback
BuildCopy(p) ==
    /\ bpc[p] = "moving"
    /\ CopyCallback(p)
    /\ UNCHANGED buildVars

\* MoveFile's fallback commits; the cache's temp area is on the file system
\* of the cache root
BuildCommit(p) ==
    /\ bpc[p] = "moving"
    /\ CommitRename(p, FALSE)
    /\ Counted(p, TopFrame(p).d)
    /\ UNCHANGED <<stack, bpc, bld, runs, invoked, snaps, hist, graph, tmpDirBase>>

\* Build: MoveFile has returned err; os.IsNotExist(err) selects the error
BuildMoved(p) ==
    /\ bpc[p] = "moving"
    /\ cop[p].pc = "done"
    /\ LET err == MoveFileErr(cop[p].err)
       IN bld' = [bld EXCEPT ![p].err =
                     IF err.nil THEN Nil
                     ELSE IF IsNotExist(err) THEN Err("nooutput", "")
                     ELSE Err("move", "")]
    /\ cop' = [cop EXCEPT ![p] = Idle]
    /\ bpc' = [bpc EXCEPT ![p] = "cleanup"]
    /\ UNCHANGED <<root, stage, src, whole, first, stack, runs, invoked, commits,
                   snaps, hist, graph, tmpDirBase>>

\* whether os.RemoveAll removes node n for a user who is not the superuser:
\* the members of a directory can be listed and unlinked only with the
\* owner's read, write and search bits on it
RECURSIVE Removable(_)
Removable(n) ==
    \/ n.kind # "dir"
    \/ DOMAIN n.files = {}
    \/ /\ {6, 7, 8} \subseteq n.mode
       /\ \A r \in DOMAIN n.files : Removable(n.files[r])

\* Build returns: the deferred os.RemoveAll(tmpDir), run by the superuser or
\* by another user, its error only logged; what it could not remove is left
\* behind (hist.left); BuildRecursive returns the error of Build wrapped
BuildReturn(p) ==
    /\ bpc[p] = "cleanup"
    /\ \E super \in BOOLEAN :
          hist' = [hist EXCEPT !.left = IF super \/ Removable(src[p]) THEN @ ELSE @ + 1]
    /\ src' = [src EXCEPT ![p] = Absent]
    /\ bld' = [bld EXCEPT ![p] = NoBuild]
    /\ Deliver(p, bld[p].err)
    /\ UNCHANGED <<root, stage, cop, whole, first, invoked, commits, snaps,
                   graph, tmpDirBase>>

InitBuild ==
    /\ root \in [Derivs -> {Absent, File("a", ReadOnly)}]
    /\ stage = [p \in BProcs |-> Absent]
    /\ src = [p \in BProcs |-> Absent]
    /\ cop = [p \in BProcs |-> Idle]
    /\ whole = root
    /\ first = root
    /\ graph \in Graphs
    /\ tmpDirBase \in {"cache", "other"}
    /\ stack = [p \in BProcs |-> <<>>]
    /\ bpc = [p \in BProcs |-> "idle"]
    /\ bld = [p \in BProcs |-> NoBuild]
    /\ runs = [p \in BProcs |-> <<>>]
    /\ snaps = [p \in BProcs |-> <<>>]
    /\ invoked = [d \in Derivs |-> 0]
    /\ commits = [d \in Derivs |-> 0]
    /\ hist = [tmps |-> 0, clean |-> TRUE, left |-> 0]
    /\ FreezeOff
    /\ LoadOff

\* what Build does, whoever called it
BuildStep ==
    \/ \E p \in BProcs : BRCheck(p) /\ UNCHANGED <<freezeVars, loadVars>>
    \/ \E p \in BProcs : BRDeps(p) /\ UNCHANGED <<freezeVars, loadVars>>
    \/ \E p \in BProcs, env \in Envs : BuildTempDir(p, env) /\ UNCHANGED <<freezeVars, loadVars>>
    \/ \E p \in BProcs, exit \in {0, 1}, out \in BuilderOutputs,
          printed \in {"", "boom"} :
          /\ (printed = "") = (exit = 0)
          /\ BuildRun(p, exit, out, printed)
          /\ UNCHANGED <<freezeVars, loadVars>>
    \/ \E p \in BProcs : BuildChmod(p) /\ UNCHANGED <<freezeVars, loadVars>>
    \/ \E p \in BProcs : BuildMove(p) /\ UNCHANGED <<freezeVars, loadVars>>
    \/ \E p \in BProcs : BuildCopy(p) /\ UNCHANGED <<freezeVars, loadVars>>
    \/ \E p \in BProcs : BuildCommit(p) /\ UNCHANGED <<freezeVars, loadVars>>
    \/ \E p \in BProcs : BuildMoved(p) /\ UNCHANGED <<freezeVars, loadVars>>
    \/ \E p \in BProcs : BuildReturn(p) /\ UNCHANGED <<freezeVars, loadVars>>

\* BuildRecursive called for the top derivation again and again, one call
\* after the other
NextBuild ==
    \/ \E p \in BProcs : Len(runs[p]) < MaxRuns /\ BRCall(p) /\ UNCHANGED <<freezeVars, loadVars>>
    \/ BuildStep

SpecBuild == InitBuild /\ [][NextBuild]_vars

\* one run of the program: buildTarget calls BuildRecursive once
NextBuildOnce ==
    \/ \E p \in BProcs : snaps[p] = <<>> /\ BRCall(p) /\ UNCHANGED <<freezeVars, loadVars>>
    \/ BuildStep

SpecBuildOnce == InitBuild /\ [][NextBuildOnce]_vars

(***************************************************************************)
(* The build driver: claims *)
(***************************************************************************)

\* the state a run is compared with: the snapshot of the next call, or the
\* present state when there is no next call
After(p, j) ==
    IF j < Len(snaps[p]) THEN snaps[p][j + 1]
    ELSE [root |-> root, invoked |-> invoked, commits |-> commits, tmps |-> hist.tmps]

TwoRunsDone(p) == Len(runs[p]) = 2 /\ Len(snaps[p]) = 2 /\ bpc[p] = "idle"

\* C3: two BuildRecursive runs in sequence on d, from a cache without d.id and
\* with builders that succeed and write their output, invoke the builder of d
\* exactly once and commit to d.id exactly once; the second run invokes no
\* builder and writes nothing to the cache
IdempotentRebuild ==
    \A p \in DOMAIN runs :
        (TwoRunsDone(p) /\ snaps[p][1].root[Top] = Absent /\ hist.clean) =>
            /\ invoked[Top] = 1
            /\ commits[Top] = 1
            /\ snaps[p][2].invoked = invoked
            /\ snaps[p][2].root = root

\* C4: when the cache has d.id at the call of BuildRecursive(d), the run
\* returns nil, invokes no builder at all, creates no temp build directory
\* and leaves the cache as it was
CacheHitDoesNothing ==
    \A p \in DOMAIN snaps : \A j \in 1..Len(snaps[p]) :
        snaps[p][j].root[Top] # Absent =>
            /\ After(p, j).invoked = snaps[p][j].invoked
            /\ After(p, j).tmps = snaps[p][j].tmps
            /\ After(p, j).root = snaps[p][j].root
            /\ j <= Len(runs[p]) => runs[p][j] = Nil

CacheHitWithAbsentDep ==
    \E p \in DOMAIN snaps :
        /\ Len(runs[p]) >= 1
        /\ snaps[p][1].root[Top] # Absent
        /\ \E i \in 1..Len(graph[Top]) : snaps[p][1].root[graph[Top][i]] = Absent

\* C5: when the builder of d is invoked every dependency of d is in the
\* cache; the dependencies of every derivation being processed are visited in
\* list order, each one finished, and in the cache, before the next is started
DepsBeforeBuilder ==
    \A p \in DOMAIN stack :
        /\ bpc[p] = "run" =>
               \A i \in 1..Len(graph[TopFrame(p).d]) :
                   root[graph[TopFrame(p).d][i]] # Absent
        /\ \A k \in 1..Len(stack[p]) :
               LET f == stack[p][k]
               IN /\ f.i <= Len(graph[f.d]) + 1
                  /\ f.seen = SubSeq(graph[f.d], 1, f.i - 1)
                  /\ \A x \in Range(f.seen) : root[x] # Absent
                  /\ k < Len(stack[p]) =>
                         /\ f.i <= Len(graph[f.d])
                         /\ stack[p][k + 1].d = graph[f.d][f.i]

BuilderAfterTwoDeps ==
    \E p \in DOMAIN stack :
        /\ bpc[p] = "run"
        /\ Len(graph[TopFrame(p).d]) = 2
        /\ invoked[graph[TopFrame(p).d][1]] = 1
        /\ invoked[graph[TopFrame(p).d][2]] = 1

\* the value a process sees for key k: the last binding of k in its env
RECURSIVE LastBinding(_, _)
LastBinding(env, k) ==
    IF env = <<>> THEN "unset"
    ELSE IF env[Len(env)][1] = k THEN env[Len(env)][2]
    ELSE LastBinding(SubSeq(env, 1, Len(env) - 1), k)

RECURSIVE NoWriteBit(_)
NoWriteBit(n) ==
    IF n.kind = "none" THEN FALSE
    ELSE /\ n.mode \cap WriteBits = {}
         /\ n.kind = "dir" => \A r \in DOMAIN n.files : NoWriteBit(n.files[r])

\* C7: after Build returns success nothing of the artifact at d.id has a
\* write bit, be it a file or a tree, committed by rename or by the copy
\* fallback
NoWriteBitAfterBuild ==
    \A p \in DOMAIN bld :
        (bpc[p] = "cleanup" /\ bld[p].err = Nil) => NoWriteBit(root[TopFrame(p).d])

\* C8: when the builder exits non-zero Build returns an error carrying the
\* captured output, has not called MoveFile, and the cache root is as it was
\* when Build was called
BuilderFailure ==
    \A p \in DOMAIN bld :
        (bpc[p] = "cleanup" /\ bld[p].exit # 0) =>
            /\ bld[p].err = Err("builder", bld[p].printed)
            /\ ~bld[p].moved
            /\ root = bld[p].before

BuilderFailedWithOutput ==
    \E p \in DOMAIN bld :
        /\ bpc[p] = "cleanup"
        /\ bld[p].exit # 0
        /\ bld[p].printed = "boom"
        /\ bld[p].made

\* C9: when the builder exits zero without creating the output path Build
\* returns the error "Builder succeeded but didn't create output file", not
\* a chmod or move error, and commits nothing
MissingOutputError ==
    \A p \in DOMAIN bld :
        (bpc[p] = "cleanup" /\ bld[p].exit = 0 /\ ~bld[p].made) =>
            /\ bld[p].err = Err("nooutput", "")
            /\ root = bld[p].before

(***************************************************************************)
(* The freezer: FreezeTarget.  Strings and hashed streams are sequences of  *)
(* bytes (numbers 0..255).  A digest is the absorbed stream between the     *)
(* marks -1 and -2: a hasher that is injective on what it absorbs and whose *)
(* digests, like fixed-length ones, end where they end inside a longer      *)
(* stream.                                                                  *)
(***************************************************************************)

\* length of the longest file of the package root
MaxBody == 2
\* length of the buffer io.Copy reads into
BufLen == 2

\* hash.Hash.Sum(nil) of a hasher that absorbed `stream`
Sum(stream) == <<-1>> \o stream \o <<-2>>

\* hex.EncodeToString of a digest: as long as the digest is, and one to one
EncodeToString(digest) == <<-3>> \o SubSeq(digest, 2, Len(digest) - 1) \o <<-4>>

RECURSIVE Flatten(_)
Flatten(ss) == IF ss = <<>> THEN <<>> ELSE Head(ss) \o Flatten(Tail(ss))

\* a < b for strings, byte by byte
RECURSIVE Less(_, _)
Less(a, b) ==
    IF b = <<>> THEN FALSE
    ELSE IF a = <<>> THEN TRUE
    ELSE IF Head(a) # Head(b) THEN Head(a) < Head(b)
    ELSE Less(Tail(a), Tail(b))

\* sort.Strings
RECURSIVE SortStrings(_)
SortStrings(ss) ==
    IF ss = <<>> THEN <<>>
    ELSE LET rest == SortStrings(Tail(ss))
             low == SelectSeq(rest, LAMBDA x : Less(x, Head(ss)))
             high == SelectSeq(rest, LAMBDA x : ~Less(x, Head(ss)))
         IN low \o <<Head(ss)>> \o high

\* the files of a package root: "a" and "b", each absent or a regular file
PkgPaths == {<<97>>, <<98>>}
RECURSIVE BytesUpTo(_)
BytesUpTo(n) ==
    IF n = 0 THEN {<<>>}
    ELSE BytesUpTo(n - 1) \cup {Append(t, x) : t \in {u \in BytesUpTo(n - 1) : Len(u) = n - 1},
                                               x \in {97, 98}}
Contents == BytesUpTo(MaxBody)
SourceFiles == {File(body, mode) : body \in Contents, mode \in {Bits(420), Bits(493)}}
Present(fs) == {path \in DOMAIN fs : fs[path].kind = "file"}

\* the three bytes hashFile writes for a mode: mode>>6&7, mode>>3&7, mode&7
Octet(mode, shift) ==
    (IF shift \in mode THEN 1 ELSE 0) + (IF shift + 1 \in mode THEN 2 ELSE 0)
        + (IF shift + 2 \in mode THEN 4 ELSE 0)
Octets(mode) == <<Octet(mode, 6), Octet(mode, 3), Octet(mode, 0)>>

\* io.Copy(w, &HashingReader{f, hasher}): the loop reads into one buffer; the
\* reads return chunks[1], chunks[2], ... bytes and then 0 and io.EOF, and
\* HashingReader.Read has the hasher absorb buf after each of them
RECURSIVE Read(_, _, _)
Read(body, chunks, buf) ==
    IF chunks = <<>> THEN buf
    ELSE LET n == Head(chunks)
             filled == [i \in 1..Len(buf) |-> IF i <= n THEN body[i] ELSE buf[i]]
         IN filled \o Read(SubSeq(body, n + 1, Len(body)), Tail(chunks), filled)

\* what the hasher absorbs in hashFile(root, relPath, hasher)
hashFile(relPath, file, chunks) ==
    relPath \o Octets(file.mode) \o Read(file.body, chunks, [i \in 1..BufLen |-> 0])

\* a Glob that matches every file, whatever the pattern
GlobEvery(pattern, enum) == enum

\* doublestar.Glob of one pattern: "*" is every file of the root, any other
\* pattern the file of that name; matches come in the order of enum
Glob(pattern, enum) ==
    SelectSeq(enum, LAMBDA path : pattern = <<42>> \/ pattern = path)

\* GlobGroup.matches: each different pattern once, the matches appended,
\* then sort.Strings
RECURSIVE matchesFrom(_, _, _)
matchesFrom(gg, seen, enum) ==
    IF gg = <<>> THEN <<>>
    ELSE IF Head(gg) \in seen THEN matchesFrom(Tail(gg), seen, enum)
    ELSE Glob(Head(gg), enum) \o matchesFrom(Tail(gg), seen \cup {Head(gg)}, enum)
matches(gg, enum) == SortStrings(matchesFrom(gg, {}, enum))

\* the bytes io.Copy writes to the cache's file: buf[0:n] after each read
RECURSIVE Copied(_, _)
Copied(body, chunks) ==
    IF chunks = <<>> THEN <<>>
    ELSE SubSeq(body, 1, Head(chunks))
             \o Copied(SubSeq(body, Head(chunks) + 1, Len(body)), Tail(chunks))

\* the arguments and targets frozen here
StringArg(s) == [kind |-> "string", s |-> s]
PathArg(path) == [kind |-> "path", p |-> path]
GlobArg(gg) == [kind |-> "glob", gg |-> gg]
TargetArg(t) == [kind |-> "target", t |-> t]
SubArg(format, subs) == [kind |-> "sub", format |-> format, subs |-> subs]
Substitution(key, value) == [Key |-> key, Value |-> value]
TargetOf(name, builder, env, args) ==
    [name |-> name, builder |-> builder, env |-> env, args |-> args]
Target(name, env, args) == TargetOf(name, <<115, 104>>, env, args)
Targets ==
    {Target(<<116>>, <<<<65, 61, 49>>>>, <<GlobArg(<<<<42>>>>)>>),
     Target(<<116>>, <<>>, <<StringArg(<<120>>), GlobArg(<<<<98>>, <<97>>>>)>>),
     Target(<<116>>, <<>>, <<GlobArg(<<<<42>>, <<97>>, <<42>>>>)>>),
     Target(<<116>>, <<>>,
            <<TargetArg(Target(<<117>>, <<>>, <<GlobArg(<<<<97>>>>)>>)), StringArg(<<>>)>>),
     Target(<<116>>, <<>>, <<GlobArg(<<<<97>>>>), PathArg(<<97>>)>>)}

\* the file the cache stores for a source file: os.Create, then what io.Copy
\* writes; the mode the callback returns is not used
Stored(file, chunks) == File(Copied(file.body, chunks), CreateMode)

\* the directory registerFile fills for the sorted paths
DirEntry(paths, fs, o) ==
    Dir([path \in Range(paths) |-> Stored(fs[path], o.reads[path])], MkdirMode)

\* an entry handed to the cache: its key is name, or parent/name
Entry(parent, name, node) == [parent |-> parent, name |-> name, node |-> node]

\* the node at a key of the cache root
Lookup(r, key) == IF key \in DOMAIN r THEN r[key] ELSE Absent
Store(r, key, node) == [k \in DOMAIN r \cup {key} |-> IF k = key THEN node ELSE r[k]]

\* os.Stat of parent/name under the cache root
Stat(r, parent, name) ==
    IF Lookup(r, parent).kind = "dir" /\ name \in DOMAIN Lookup(r, parent).files
    THEN Lookup(r, parent).files[name]
    ELSE Absent

\* withTmpArtifact's commit of a produced entry: os.Rename(tmpPath, cachePath),
\* and on os.IsExist os.RemoveAll(cachePath) and the rename again.  The
\* parent directory of cachePath is whatever the cache root holds there.
CommitEntry(r, e) ==
    IF e.parent = <<>>
    THEN LET err == RenameErr(e.node, Lookup(r, e.name), FALSE)
         IN IF err = "ok" \/ IsExist(err)
            THEN [root |-> Store(r, e.name, e.node), err |-> ""]
            ELSE [root |-> r, err |-> err]
    ELSE LET dir == Lookup(r, e.parent)
         IN IF dir.kind = "none" THEN [root |-> r, err |-> "ENOENT"]
            ELSE IF dir.kind = "file" THEN [root |-> r, err |-> "ENOTDIR"]
            ELSE LET dst == IF e.name \in DOMAIN dir.files THEN dir.files[e.name]
                            ELSE Absent
                     err == RenameErr(e.node, dst, FALSE)
                 IN IF err = "ok"
                    THEN [root |-> Store(r, e.parent,
                                         Dir(Store(dir.files, e.name, e.node), dir.mode)),
                          err |-> ""]
                    ELSE [root |-> r, err |-> err]

\* the result of a freezeArg: the ArgValue, the error ("" for nil), the cache
\* root afterwards and the entries committed on the way, in order
Frozen(value, hash, derivations, r, entries, err) ==
    [Value |-> value, Hash |-> hash, Derivations |-> derivations,
     root |-> r, entries |-> entries, err |-> err]
Failed(r, entries, err) == Frozen(<<>>, <<>>, <<>>, r, entries, err)

\* String.freezeArg
StringFreezeArg(s, r) == Frozen(s, Sum(s), <<>>, r, <<>>, "")

\* Path.freezeArg: NewFileEntry(hashFile(...), cachePath), the key being
\* filepath.Join(hex(hasher.Sum(nil)), p)
PathFreezeArg(path, fs, o, r) ==
    IF path \notin Present(fs) THEN Failed(r, <<>>, "ENOENT")
    ELSE LET hash == Sum(hashFile(path, fs[path], o.reads[path]))
             e == Entry(EncodeToString(hash), path, Stored(fs[path], o.reads[path]))
             c == CommitEntry(r, e)
         IN IF c.err # "" THEN Failed(c.root, <<>>, c.err)
            ELSE Frozen(EncodeToString(hash) \o <<47>> \o path, hash, <<>>,
                        c.root, <<e>>, "")

\* GlobGroup.freezeArg: one hasher over the files of matches, in NewDirEntry
GlobGroupFreezeArg(gg, fs, o, r) ==
    LET paths == matches(gg, o.enum)
        hash == Sum(Flatten([i \in 1..Len(paths) |->
                       hashFile(paths[i], fs[paths[i]], o.reads[paths[i]])]))
        e == Entry(<<>>, EncodeToString(hash), DirEntry(paths, fs, o))
        c == CommitEntry(r, e)
    IN IF c.err # "" THEN Failed(c.root, <<>>, c.err)
       ELSE Frozen(EncodeToString(hash), hash, <<>>, c.root, <<e>>, "")

\* a Target.freezeArg that carries no derivation
TargetFreezeArgBare(t) ==
    IF t.err # "" THEN Failed(t.root, t.entries, t.err)
    ELSE Frozen(t.d.ID, t.hash, <<>>, t.root, t.entries, "")

\* Target.freezeArg: t is what freezeTarget returned
TargetFreezeArg(t) ==
    IF t.err # "" THEN Failed(t.root, t.entries, t.err)
    ELSE Frozen(t.d.ID, t.hash, <<t.d>>, t.root, t.entries, "")

\* strings.ReplaceAll
RECURSIVE ReplaceAll(_, _, _)
ReplaceAll(s, old, new) ==
    IF Len(s) < Len(old) THEN s
    ELSE IF SubSeq(s, 1, Len(old)) = old
    THEN new \o ReplaceAll(SubSeq(s, Len(old) + 1, Len(s)), old, new)
    ELSE <<Head(s)>> \o ReplaceAll(Tail(s), old, new)

\* "${" + key + "}"
Placeholder(key) == <<36, 123>> \o key \o <<125>>

\* freezeArg and freezeTarget.  o is what the file system answers during the
\* run: o.enum, the order it lists the files in, and o.reads, the sizes of the
\* reads of each file (the same for every time the file is read in the run).
\* r is the cache root the run finds.
RECURSIVE freezeArg(_, _, _, _)
RECURSIVE freezeArgs(_, _, _, _)
RECURSIVE freezeSubs(_, _, _, _, _)

\* the value of a one-element set: Only({body(v) : v \in {e}}) is body(v)
\* for v := e, e being evaluated once
Only(S) == CHOOSE y \in S : TRUE

\* a Sub.freezeArg that applies the later substitutions to the message first
freezeSubsRestLaterFirst(subs, fs, o, message, value) ==
    Only({[written |-> Head(subs).Key \o value.Hash \o rest.written,
           Derivations |-> value.Derivations \o rest.Derivations,
           message |-> ReplaceAll(rest.message, Placeholder(Head(subs).Key),
                                  value.Value),
           root |-> rest.root,
           entries |-> value.entries \o rest.entries,
           err |-> rest.err] :
          rest \in {freezeSubs(Tail(subs), fs, o, value.root, message)}})

\* the loop of Sub.freezeArg over the substitutions, message being rewritten
freezeSubsRest(subs, fs, o, message, value) ==
    Only({[written |-> Head(subs).Key \o value.Hash \o rest.written,
           Derivations |-> value.Derivations \o rest.Derivations,
           message |-> rest.message,
           root |-> rest.root,
           entries |-> value.entries \o rest.entries,
           err |-> rest.err] :
          rest \in {freezeSubs(Tail(subs), fs, o, value.root,
                               ReplaceAll(message, Placeholder(Head(subs).Key),
                                          value.Value))}})

freezeSubs(subs, fs, o, r, message) ==
    IF subs = <<>>
    THEN [written |-> <<>>, Derivations |-> <<>>, message |-> message,
          root |-> r, entries |-> <<>>, err |-> ""]
    ELSE Only({IF value.err # ""
               THEN [written |-> <<>>, Derivations |-> <<>>, message |-> message,
                     root |-> value.root, entries |-> value.entries, err |-> value.err]
               ELSE freezeSubsRest(subs, fs, o, message, value) :
               value \in {freezeArg(Head(subs).Value, fs, o, r)}})

\* a Sub.freezeArg that keeps the format as it is and carries no derivation
SubFreezeArgRaw(format, l) ==
    IF l.err # "" THEN Failed(l.root, l.entries, l.err)
    ELSE Frozen(format, Sum(format \o l.written), <<>>, l.root, l.entries, "")

\* Sub.freezeArg
SubFreezeArg(format, l) ==
    IF l.err # "" THEN Failed(l.root, l.entries, l.err)
    ELSE Frozen(l.message, Sum(format \o l.written), l.Derivations, l.root,
                l.entries, "")

\* the loop of freezeTarget over the arguments
freezeArgsRest(args, fs, o, argValue) ==
    Only({[vals |-> <<argValue>> \o rest.vals, root |-> rest.root,
           entries |-> argValue.entries \o rest.entries, err |-> rest.err] :
          rest \in {freezeArgs(Tail(args), fs, o, argValue.root)}})

freezeArgs(args, fs, o, r) ==
    IF args = <<>> THEN [vals |-> <<>>, root |-> r, entries |-> <<>>, err |-> ""]
    ELSE Only({IF argValue.err # ""
               THEN [vals |-> <<>>, root |-> argValue.root,
                     entries |-> argValue.entries, err |-> argValue.err]
               ELSE freezeArgsRest(args, fs, o, argValue) :
               argValue \in {freezeArg(Head(args), fs, o, r)}})

\* the nil *Derivation
NilDerivation ==
    [ID |-> <<>>, Hash |-> <<>>, Dependencies |-> <<>>, Builder |-> <<>>,
     Args |-> <<>>, Env |-> <<>>]

\* a freezeTarget that writes the hashes of the arguments before the Env
AbsorbedArgsFirst(t, hashes) ==
    t.name \o t.builder \o Flatten(hashes) \o Flatten(t.env)

\* what freezeTarget writes to its hasher: t.Name, t.Builder, each envVar of
\* t.Env, then argValue.Hash of each argument
Absorbed(t, hashes) ==
    t.name \o t.builder \o Flatten(t.env) \o Flatten(hashes)

\* a freezeTarget that appends the derivations of a later argument in front
dependenciesReversed(vals) ==
    Flatten([i \in 1..Len(vals) |-> vals[Len(vals) + 1 - i].Derivations])

\* dependencies = append(dependencies, argValue.Derivations...) over the
\* arguments in order
dependencies(vals) ==
    Flatten([i \in 1..Len(vals) |-> vals[i].Derivations])

\* what freezeTarget returns when l is what the loop over the arguments gave:
\* the Derivation d, the hash, the ArgValues of the arguments, the error, the
\* cache root afterwards
Derive(t, l) ==
    IF l.err # ""
    THEN [d |-> NilDerivation, hash |-> <<>>, vals |-> <<>>, root |-> l.root,
          entries |-> l.entries, err |-> l.err]
    ELSE Only({[d |-> [ID |-> EncodeToString(hash) \o <<45>> \o t.name,
                       \* the literal names no Hash: the field is nil
                       Hash |-> <<>>,
                       Dependencies |-> dependencies(l.vals),
                       Builder |-> t.builder,
                       Args |-> [i \in 1..Len(l.vals) |-> l.vals[i].Value],
                       Env |-> t.env],
                hash |-> hash,
                vals |-> [i \in 1..Len(l.vals) |->
                             [Value |-> l.vals[i].Value, Hash |-> l.vals[i].Hash,
                              Derivations |-> l.vals[i].Derivations,
                              entries |-> l.vals[i].entries]],
                root |-> l.root,
                entries |-> l.entries,
                err |-> ""] :
               hash \in {Sum(Absorbed(t, [i \in 1..Len(l.vals) |-> l.vals[i].Hash]))}})

freezeTarget(t, fs, o, r) ==
    Only({Derive(t, l) : l \in {freezeArgs(t.args, fs, o, r)}})

freezeArg(arg, fs, o, r) ==
    IF arg.kind = "string" THEN StringFreezeArg(arg.s, r)
    ELSE IF arg.kind = "path" THEN PathFreezeArg(arg.p, fs, o, r)
    ELSE IF arg.kind = "glob" THEN GlobGroupFreezeArg(arg.gg, fs, o, r)
    ELSE IF arg.kind = "target"
    THEN Only({TargetFreezeArg(t) : t \in {freezeTarget(arg.t, fs, o, r)}})
    ELSE Only({SubFreezeArg(arg.format, l) :
               l \in {freezeSubs(arg.subs, fs, o, r, arg.format)}})

\* the files the arguments in the tree of t name: the paths, and what the
\* patterns of the GlobGroups match
RECURSIVE Named(_, _)
Named(arg, path) ==
    IF arg.kind = "path" THEN arg.p = path
    ELSE IF arg.kind = "glob"
    THEN \E i \in 1..Len(arg.gg) : Glob(arg.gg[i], <<path>>) # <<>>
    ELSE IF arg.kind = "target"
    THEN \E i \in 1..Len(arg.t.args) : Named(arg.t.args[i], path)
    ELSE IF arg.kind = "sub"
    THEN \E i \in 1..Len(arg.subs) : Named(arg.subs[i].Value, path)
    ELSE FALSE
Ingested(t, fs) == {path \in Present(fs) : Named(TargetArg(t), path)}

RECURSIVE SumOf(_)
SumOf(ns) == IF ns = <<>> THEN 0 ELSE Head(ns) + SumOf(Tail(ns))

FreezeIdle == [pc |-> "idle", enum |-> <<>>, reads |-> <<>>, chunk |-> 0]

\* FreezeTarget(packageRoot, newHasher, cache, t) is called
FreezeCall ==
    /\ fz.pc = "idle"
    /\ Len(fruns) < MaxRuns
    /\ fz' = [fz EXCEPT !.pc = "list"]
    /\ UNCHANGED <<cacheVars, pkg, target, fruns>>

\* the file system lists the package root, in the order `enum`
Readdir(enum) ==
    /\ fz.pc = "list"
    /\ Range(enum) = Present(pkg) /\ Len(enum) = Cardinality(Present(pkg))
    /\ fz' = [fz EXCEPT !.pc = "read", !.enum = enum,
                        !.reads = [path \in Ingested(target, pkg) |-> <<>>]]
    /\ UNCHANGED <<cacheVars, pkg, target, fruns>>

\* a Read of the file at `path` returns n bytes, n > 0
ReadFile(path, n) ==
    /\ fz.pc = "read"
    /\ path \in DOMAIN fz.reads
    /\ n <= Len(pkg[path].body) - SumOf(fz.reads[path])
    /\ fz' = [fz EXCEPT !.reads[path] = Append(@, n)]
    /\ UNCHANGED <<cacheVars, pkg, target, fruns>>

\* what is recorded of a run of FreezeTarget: what it was given, what the
\* file system answered and what it returned
Run(r, o) ==
    [target |-> target, pkg |-> pkg, before |-> root, enum |-> o.enum,
     reads |-> o.reads, d |-> r.d, hash |-> r.hash, vals |-> r.vals,
     err |-> r.err, root |-> r.root]

\* every file was read to its end: FreezeTarget returns, its entries are in
\* the cache
FreezeReturn ==
    /\ fz.pc = "read"
    /\ \A path \in DOMAIN fz.reads : SumOf(fz.reads[path]) = Len(pkg[path].body)
    /\ \E r \in {freezeTarget(target, pkg, fz, root)} :
          /\ fruns' = Append(fruns, Run(r, fz))
          /\ root' = r.root
          /\ whole' = r.root
          /\ first' = [k \in DOMAIN root' |-> IF k \in DOMAIN first THEN first[k]
                                              ELSE root'[k]]
    /\ fz' = FreezeIdle
    /\ UNCHANGED <<stage, src, cop, pkg, target>>

InitFreeze ==
    /\ root = <<>>
    /\ CacheOff
    /\ BuildOff
    /\ LoadOff
    /\ pkg \in [PkgPaths -> {Absent} \cup SourceFiles]
    /\ target \in Targets
    /\ fruns = <<>>
    /\ fz = FreezeIdle

NextFreeze ==
    \/ FreezeCall /\ UNCHANGED <<buildVars, loadVars>>
    \/ \E enum \in ListsUpTo(PkgPaths, Cardinality(PkgPaths)) :
          Readdir(enum) /\ UNCHANGED <<buildVars, loadVars>>
    \/ \E path \in PkgPaths, n \in 1..BufLen : ReadFile(path, n) /\ UNCHANGED <<buildVars, loadVars>>
    \/ FreezeReturn /\ UNCHANGED <<buildVars, loadVars>>

SpecFreeze == InitFreeze /\ [][NextFreeze]_vars

----------------------------------------------------------------------------
(* The freezer between two invocations of the tool: FreezeTarget runs, the
   user changes the target or a file of the package, FreezeTarget runs again
   on the cache the first run left.  Every Read returns fz.chunk bytes, or
   what is left of the file. *)

NameT == <<116>>
NameU == <<117>>
Sh == <<115, 104>>
KeyK == <<75>>
KeyJ == <<74>>

\* the target "u" other targets depend on
Leaf == Target(NameU, <<>>, <<GlobArg(<<<<97>>>>)>>)

\* the targets of the package before and after the change
EditTargets ==
    Targets \cup
    {Leaf,
     TargetOf(NameT, Sh, <<<<65>>, <<65, 65>>>>, <<>>),
     TargetOf(NameT, Sh, <<<<65, 65>>, <<65>>>>, <<>>),
     TargetOf(NameT, Sh, <<<<65, 65, 65>>>>, <<>>),
     TargetOf(NameT, Sh \o <<65>>, <<<<65, 65>>>>, <<>>),
     TargetOf(NameU, Sh, <<<<65, 65, 65>>>>, <<>>),
     Target(NameT, <<>>, <<GlobArg(<<<<42>>>>)>>),
     Target(NameT, <<>>, <<GlobArg(<<<<97>>, <<98>>>>)>>),
     Target(NameT, <<>>, <<GlobArg(<<<<98>>, <<97>>>>)>>),
     Target(NameT, <<>>, <<StringArg(<<120>>)>>),
     Target(NameT, <<>>, <<StringArg(<<121>>)>>),
     Target(NameT, <<>>, <<StringArg(<<120>>), PathArg(<<97>>)>>),
     Target(NameT, <<>>, <<GlobArg(<<<<98>>, <<97>>>>), StringArg(<<120>>)>>),
     Target(NameT, <<>>, <<TargetArg(Target(NameU, <<>>, <<TargetArg(Leaf)>>))>>),
     Target(NameT, <<<<65>>>>,
            <<TargetArg(Leaf),
              SubArg(Placeholder(KeyK),
                     <<Substitution(KeyK, StringArg(Placeholder(KeyJ))),
                       Substitution(KeyJ, StringArg(Placeholder(KeyK)))>>),
              TargetArg(Target(NameU, <<>>, <<StringArg(<<120>>)>>))>>),
     Target(NameT, <<>>,
            <<SubArg(Placeholder(KeyK) \o <<120>> \o Placeholder(KeyK),
                     <<Substitution(KeyK, TargetArg(Leaf))>>)>>),
     Target(NameT, <<>>,
            <<SubArg(Placeholder(KeyK) \o Placeholder(KeyJ),
                     <<Substitution(KeyK,
                           SubArg(<<121>> \o Placeholder(KeyJ),
                                  <<Substitution(KeyJ, TargetArg(Leaf))>>)),
                       Substitution(KeyJ, StringArg(<<122>>))>>)>>)}

\* the package roots: "a" is any file or none, "b" the file "b" or none
EditPkgs ==
    {pk \in [PkgPaths -> {Absent} \cup SourceFiles] :
        pk[<<98>>] \in {Absent, File(<<98>>, Bits(420))}}

\* the sizes of the reads of a file of n bytes when each returns c bytes
RECURSIVE ChunksOf(_, _)
ChunksOf(n, c) == IF n = 0 THEN <<>> ELSE <<Min(c, n)>> \o ChunksOf(n - Min(c, n), c)

\* what the file system answers during a run
Oracle(enum) ==
    [enum |-> enum,
     reads |-> [path \in Ingested(target, pkg) |->
                   ChunksOf(Len(pkg[path].body), fz.chunk)]]

\* a run of FreezeTarget, the file system listing the files in the order enum
FreezeWhole(enum) ==
    /\ fz.pc \in {"first", "second"}
    /\ Range(enum) = Present(pkg) /\ Len(enum) = Cardinality(Present(pkg))
    /\ \E o \in {Oracle(enum)} : \E r \in {freezeTarget(target, pkg, o, root)} :
          /\ fruns' = Append(fruns, Run(r, o))
          /\ root' = r.root
          /\ whole' = r.root
          /\ first' = [k \in DOMAIN root' |-> IF k \in DOMAIN first THEN first[k]
                                              ELSE root'[k]]
    /\ fz' = [fz EXCEPT !.pc = IF fz.pc = "first" THEN "edit" ELSE "done"]
    /\ UNCHANGED <<stage, src, cop, pkg, target>>

\* the user rewrites the target
EditTarget(t) ==
    /\ fz.pc = "edit"
    /\ t # target
    /\ target' = t
    /\ fz' = [fz EXCEPT !.pc = "second"]
    /\ UNCHANGED <<cacheVars, pkg, fruns>>

\* one byte of a differs, or its mode only
OneChange(f, g) ==
    /\ f.kind = "file" /\ g.kind = "file"
    /\ Len(f.body) = Len(g.body)
    /\ \/ f.mode # g.mode /\ f.body = g.body
       \/ f.mode = g.mode /\ Cardinality({i \in 1..Len(f.body) : f.body[i] # g.body[i]}) = 1

\* the user changes one byte of the file "a", or its mode
EditFile(file) ==
    /\ fz.pc = "edit"
    /\ OneChange(pkg[<<97>>], file)
    /\ pkg' = [pkg EXCEPT ![<<97>>] = file]
    /\ fz' = [fz EXCEPT !.pc = "second"]
    /\ UNCHANGED <<cacheVars, target, fruns>>

InitEdit ==
    /\ root = <<>>
    /\ CacheOff
    /\ BuildOff
    /\ LoadOff
    /\ pkg \in EditPkgs
    /\ target \in EditTargets
    /\ fruns = <<>>
    /\ fz \in {[pc |-> "first", enum |-> <<>>, reads |-> <<>>, chunk |-> c] : c \in 1..BufLen}

NextEdit ==
    \/ \E enum \in ListsUpTo(PkgPaths, Cardinality(PkgPaths)) :
          FreezeWhole(enum) /\ UNCHANGED <<buildVars, loadVars>>
    \/ \E t \in EditTargets : EditTarget(t) /\ UNCHANGED <<buildVars, loadVars>>
    \/ \E file \in SourceFiles : EditFile(file) /\ UNCHANGED <<buildVars, loadVars>>

SpecEdit == InitEdit /\ [][NextEdit]_vars

----------------------------------------------------------------------------
(* The freezer: claims *)

\* C10: two runs of FreezeTarget with the same hasher, the same package root
\* and the same target give the same Derivation.id, however the reads of the
\* files are chunked and in whatever order the file system lists the matches
FreezeDeterminism ==
    \A i, j \in 1..Len(fruns) : fruns[i].d.ID = fruns[j].d.ID

\* the order of enumeration alone changes nothing: runs whose reads were
\* chunked alike give the same id
FreezeSameChunks ==
    \A i, j \in 1..Len(fruns) :
        fruns[i].reads = fruns[j].reads => fruns[i].d.ID = fruns[j].d.ID

\* what two runs of FreezeTarget were given differs in one of the ways the
\* id is to be sensitive to: the name, the builder, the env list, a resolved
\* argument, or a file the arguments of the same target refer to
Differ(x, y) ==
    \/ x.target.name # y.target.name
    \/ x.target.builder # y.target.builder
    \/ x.target.env # y.target.env
    \/ x.d.Args # y.d.Args
    \/ /\ x.target = y.target
       /\ \E path \in Ingested(x.target, x.pkg) : x.pkg[path] # y.pkg[path]

\* C11: two targets that differ in name, in builder, in an env entry (value or
\* order), in an argument value, in a byte of a referenced file or in the
\* permission octets of such a file freeze to different top-level ids
Sensitivity ==
    \A i, j \in 1..Len(fruns) :
        (fruns[i].err = "" /\ fruns[j].err = "" /\ Differ(fruns[i], fruns[j]))
            => fruns[i].d.ID # fruns[j].d.ID

\* t is s in another order
Permuted(s, t) ==
    /\ Len(s) = Len(t)
    /\ s # t
    /\ \E f \in [1..Len(s) -> 1..Len(s)] :
          /\ \A i, j \in 1..Len(s) : i # j => f[i] # f[j]
          /\ t = [i \in 1..Len(s) |-> s[f[i]]]

\* C12: permuting target.args into a different sequence, or target.env into
\* a different sequence, changes the hash of the frozen target
OrderDependence ==
    \A i, j \in 1..Len(fruns) :
        (/\ fruns[i].err = "" /\ fruns[j].err = ""
         /\ fruns[i].pkg = fruns[j].pkg
         /\ fruns[i].target.name = fruns[j].target.name
         /\ fruns[i].target.builder = fruns[j].target.builder
         /\ \/ /\ fruns[i].target.args = fruns[j].target.args
               /\ Permuted(fruns[i].target.env, fruns[j].target.env)
            \/ /\ fruns[i].target.env = fruns[j].target.env
               /\ Permuted(fruns[i].target.args, fruns[j].target.args))
            => fruns[i].hash # fruns[j].hash

\* permuted args: the hashes differ
ArgsPermuted ==
    \A i, j \in 1..Len(fruns) :
        (/\ fruns[i].err = "" /\ fruns[j].err = ""
         /\ fruns[i].pkg = fruns[j].pkg
         /\ fruns[i].target.env = fruns[j].target.env
         /\ Permuted(fruns[i].target.args, fruns[j].target.args))
            => fruns[i].hash # fruns[j].hash

\* the set of files the patterns of gg expand to under the package root fs
Expansion(gg, fs) ==
    {path \in Present(fs) : \E k \in 1..Len(gg) : gg[k] = <<42>> \/ gg[k] = path}

\* C13: two GlobGroups whose pattern lists expand to the same set of files
\* under the same package root freeze to the same hash and the same value,
\* whatever the order of the patterns, the order of enumeration, and whether
\* or not a file is matched by more than one pattern
GlobOrderIndependence ==
    \A i, j \in 1..Len(fruns) :
        (fruns[i].err = "" /\ fruns[j].err = "" /\ fruns[i].pkg = fruns[j].pkg)
            => \A m \in 1..Len(fruns[i].target.args), n \in 1..Len(fruns[j].target.args) :
                  (/\ fruns[i].target.args[m].kind = "glob"
                   /\ fruns[j].target.args[n].kind = "glob"
                   /\ Expansion(fruns[i].target.args[m].gg, fruns[i].pkg)
                          = Expansion(fruns[j].target.args[n].gg, fruns[j].pkg))
                      => /\ fruns[i].vals[m].Hash = fruns[j].vals[n].Hash
                         /\ fruns[i].vals[m].Value = fruns[j].vals[n].Value

\* the same, for GlobGroups none of whose files is matched by two patterns
GlobOrderOnly ==
    \A i, j \in 1..Len(fruns) :
        (fruns[i].err = "" /\ fruns[j].err = "" /\ fruns[i].pkg = fruns[j].pkg)
            => \A m \in 1..Len(fruns[i].target.args), n \in 1..Len(fruns[j].target.args) :
                  (/\ fruns[i].target.args[m].kind = "glob"
                   /\ fruns[j].target.args[n].kind = "glob"
                   /\ Expansion(fruns[i].target.args[m].gg, fruns[i].pkg)
                          = Expansion(fruns[j].target.args[n].gg, fruns[j].pkg)
                   /\ Len(matches(fruns[i].target.args[m].gg, fruns[i].enum))
                          = Cardinality(Expansion(fruns[i].target.args[m].gg, fruns[i].pkg))
                   /\ Len(matches(fruns[j].target.args[n].gg, fruns[j].enum))
                          = Cardinality(Expansion(fruns[j].target.args[n].gg, fruns[j].pkg)))
                      => /\ fruns[i].vals[m].Hash = fruns[j].vals[n].Hash
                         /\ fruns[i].vals[m].Value = fruns[j].vals[n].Value

\* what the file system answered during a recorded run
Answers(run) == [enum |-> run.enum, reads |-> run.reads]

\* C14: the frozen derivation's id is hex(H.sum()), "-" and the target's
\* name; for every Target-typed argument the resolved argument string is the
\* child derivation's id, the ArgValue's hash the child's hash, and the
\* ArgValue's derivations the one-element list of the child
TargetArgResolution ==
    \A i \in 1..Len(fruns) :
        fruns[i].err = "" =>
            /\ fruns[i].d.ID = EncodeToString(fruns[i].hash) \o <<45>> \o fruns[i].target.name
            /\ \A m \in 1..Len(fruns[i].target.args) :
                  fruns[i].target.args[m].kind = "target" =>
                      \E child \in {freezeTarget(fruns[i].target.args[m].t, fruns[i].pkg,
                                                 Answers(fruns[i]), fruns[i].before)} :
                          /\ child.err = ""
                          /\ fruns[i].d.Args[m] = child.d.ID
                          /\ fruns[i].vals[m].Value = child.d.ID
                          /\ fruns[i].vals[m].Hash = child.hash
                          /\ fruns[i].vals[m].Derivations = <<child.d>>
                          /\ child.d.ID = EncodeToString(child.hash) \o <<45>>
                                              \o fruns[i].target.args[m].t.name

\* a target was frozen whose Target-typed argument has a dependency itself
NestedTargetFrozen ==
    \E i \in 1..Len(fruns) :
        /\ fruns[i].err = ""
        /\ \E m \in 1..Len(fruns[i].target.args) :
              /\ fruns[i].target.args[m].kind = "target"
              /\ Len(fruns[i].vals[m].Derivations) = 1
              /\ fruns[i].vals[m].Derivations[1].Dependencies # <<>>

\* the targets an argument refers to: itself, or the substitution values of
\* a Sub, nested to any depth
RECURSIVE Refs(_)
Refs(arg) ==
    IF arg.kind = "target" THEN {arg.t}
    ELSE IF arg.kind = "sub" THEN UNION {Refs(arg.subs[k].Value) : k \in 1..Len(arg.subs)}
    ELSE {}

\* old occurs in s
Occurs(old, s) == \E k \in 1..Len(s) : k + Len(old) - 1 <= Len(s) /\ SubSeq(s, k, k + Len(old) - 1) = old

\* C15: every derivation an argument refers to, directly as a Target argument
\* or as a substitution value inside a Sub nested to any depth, is among the
\* frozen derivation's dependencies; and a Sub whose substitution (K, target)
\* freezes to an id resolves to its format with every ${K} replaced by the id
SubResolution ==
    \A i \in 1..Len(fruns) :
        fruns[i].err = "" =>
            \A m \in 1..Len(fruns[i].target.args) :
                /\ \A t \in Refs(fruns[i].target.args[m]) :
                      \E child \in {freezeTarget(t, fruns[i].pkg, Answers(fruns[i]),
                                                 fruns[i].before)} :
                          \E k \in 1..Len(fruns[i].d.Dependencies) :
                              fruns[i].d.Dependencies[k] = child.d
                /\ (/\ fruns[i].target.args[m].kind = "sub"
                    /\ Len(fruns[i].target.args[m].subs) = 1
                    /\ fruns[i].target.args[m].subs[1].Value.kind = "target")
                       => \E child \in {freezeTarget(fruns[i].target.args[m].subs[1].Value.t,
                                                     fruns[i].pkg, Answers(fruns[i]),
                                                     fruns[i].before)} :
                              /\ fruns[i].d.Args[m]
                                     = ReplaceAll(fruns[i].target.args[m].format,
                                                  Placeholder(fruns[i].target.args[m].subs[1].Key),
                                                  child.d.ID)
                              /\ Occurs(child.d.ID, fruns[i].d.Args[m])
                              /\ ~Occurs(Placeholder(fruns[i].target.args[m].subs[1].Key),
                                         fruns[i].d.Args[m])

\* a Sub with a target substitution was frozen, and then a Sub whose
\* substitution value is a Sub with a target substitution
SubsFrozen ==
    /\ Len(fruns) = 2
    /\ fruns[1].err = "" /\ fruns[2].err = ""
    /\ \E m \in 1..Len(fruns[1].target.args) :
          /\ fruns[1].target.args[m].kind = "sub"
          /\ fruns[1].target.args[m].subs[1].Value.kind = "target"
          /\ Occurs(Placeholder(fruns[1].target.args[m].subs[1].Key),
                    fruns[1].target.args[m].format)
    /\ \E m \in 1..Len(fruns[2].target.args) :
          /\ fruns[2].target.args[m].kind = "sub"
          /\ fruns[2].target.args[m].subs[1].Value.kind = "sub"
          /\ fruns[2].d.Dependencies # <<>>

\* argument m of the target of a run is a Path to a file of the package
\* root, and only String arguments come before it
PathArgAt(run, m) ==
    /\ run.target.args[m].kind = "path"
    /\ run.target.args[m].p \in Present(run.pkg)
    /\ \A n \in 1..(m - 1) : run.target.args[n].kind = "string"

\* C16: the freeze of Path(p) against the filesystem cache succeeds, also
\* when the directory hex(hash) did not exist under the root before; the
\* value is hex(hash), "/" and p, the cache has an entry at that key, and the
\* bytes of the entry are the bytes of the file p of the package root
PathEntryCommitted ==
    \A i \in 1..Len(fruns) : \A m \in 1..Len(fruns[i].target.args) :
        PathArgAt(fruns[i], m) =>
            /\ fruns[i].err = ""
            /\ fruns[i].vals[m].Value
                   = EncodeToString(fruns[i].vals[m].Hash) \o <<47>> \o fruns[i].target.args[m].p
            /\ Stat(fruns[i].root, EncodeToString(fruns[i].vals[m].Hash),
                    fruns[i].target.args[m].p).kind = "file"
            /\ Stat(fruns[i].root, EncodeToString(fruns[i].vals[m].Hash),
                    fruns[i].target.args[m].p).body
                   = fruns[i].pkg[fruns[i].target.args[m].p].body

\* the freeze of a Path succeeds only where the directory hex(hash) was in
\* the cache before
PathNeedsParent ==
    \A i \in 1..Len(fruns) : \A m \in 1..Len(fruns[i].target.args) :
        (fruns[i].target.args[m].kind = "path" /\ fruns[i].err = "")
            => \/ Lookup(fruns[i].before, EncodeToString(fruns[i].vals[m].Hash)).kind = "dir"
               \/ \E n \in 1..(m - 1) :
                     /\ fruns[i].target.args[n].kind = "glob"
                     /\ fruns[i].vals[n].Hash = fruns[i].vals[m].Hash

\* C17: after a successful freeze of a GlobGroup the cache holds one
\* directory entry at the key hex(hash); its files are exactly the files the
\* patterns match, each at its path relative to the package root and with the
\* bytes of the source file; the ArgValue's value is the key and it has no
\* derivations
GlobEntryCommitted ==
    \A i \in 1..Len(fruns) :
        fruns[i].err = "" =>
            \A m \in 1..Len(fruns[i].target.args) :
                fruns[i].target.args[m].kind = "glob" =>
                    /\ fruns[i].vals[m].Value = EncodeToString(fruns[i].vals[m].Hash)
                    /\ fruns[i].vals[m].Derivations = <<>>
                    /\ Len(fruns[i].vals[m].entries) = 1
                    /\ fruns[i].vals[m].entries[1].parent = <<>>
                    /\ fruns[i].vals[m].entries[1].name = fruns[i].vals[m].Value
                    /\ \A dir \in {fruns[i].vals[m].entries[1].node,
                                   Lookup(fruns[i].root, fruns[i].vals[m].Value)} :
                          /\ dir.kind = "dir"
                          /\ DOMAIN dir.files
                                 = Expansion(fruns[i].target.args[m].gg, fruns[i].pkg)
                          /\ \A path \in DOMAIN dir.files :
                                /\ dir.files[path].kind = "file"
                                /\ dir.files[path].body = fruns[i].pkg[path].body

\* a GlobGroup was frozen that matches one of the two files of the package
\* root, a file of MaxBody bytes, and not the other
GlobWithSibling ==
    \E i \in 1..Len(fruns) :
        /\ fruns[i].err = ""
        /\ \E m \in 1..Len(fruns[i].target.args) :
              /\ fruns[i].target.args[m].kind = "glob"
              /\ Cardinality(Present(fruns[i].pkg)) = 2
              /\ \E path \in Present(fruns[i].pkg) :
                    /\ Expansion(fruns[i].target.args[m].gg, fruns[i].pkg) = {path}
                    /\ Len(fruns[i].pkg[path].body) = MaxBody

\* C18: every source file ingested by the freeze of a Path or of a GlobGroup
\* is stored in the cache entry with the permission mode the produce callback
\* returned, the mode of the source file
StoredModePreserved ==
    \A i \in 1..Len(fruns) :
        fruns[i].err = "" =>
            \A m \in 1..Len(fruns[i].target.args) :
                /\ fruns[i].target.args[m].kind = "glob" =>
                      \A path \in DOMAIN fruns[i].vals[m].entries[1].node.files :
                          fruns[i].vals[m].entries[1].node.files[path].mode
                              = fruns[i].pkg[path].mode
                /\ fruns[i].target.args[m].kind = "path" =>
                      fruns[i].vals[m].entries[1].node.mode
                          = fruns[i].pkg[fruns[i].target.args[m].p].mode

\* C19: for NewFileEntry and NewDirEntry the name callback is invoked only
\* after the produce callback returned success, and then exactly once; when
\* the produce callback returns an error the name callback is never invoked,
\* the put returns that error, and the keys and contents under the cache
\* root are unchanged
NameCallbackDiscipline ==
    /\ [](\A p \in Procs :
            cop[p].op \in {"put_file", "put_dir"} =>
                /\ cop[p].names <= 1
                /\ cop[p].pc = "commit" => cop[p].names = 0
                /\ (cop[p].pc = "done" /\ cop[p].err = "callback") => cop[p].names = 0
                /\ (cop[p].pc \in {"rmdst", "retry"}
                      \/ (cop[p].pc = "done" /\ cop[p].err # "callback"))
                       => cop[p].names = 1)
    /\ [][\A p \in Procs :
             (/\ cop[p].pc = "idle" /\ cop'[p].pc = "done"
              /\ cop'[p].op \in {"put_file", "put_dir"})
                 => /\ cop'[p].err = "callback"
                    /\ root' = root
                    /\ stage'[p] = Absent]_vars

\* a put whose produce callback failed has returned, on a cache root that
\* holds a directory entry
PutFailedInProduce ==
    \E p \in Procs :
        /\ cop[p].op \in {"put_file", "put_dir"}
        /\ cop[p].pc = "done"
        /\ cop[p].err = "callback"
        /\ cop[p].names = 0
        /\ \E k \in Keys : root[k].kind = "dir"

\* C20: whenever NewFileEntry, NewDirEntry or the copy fallback of MoveFile
\* returns an error, for any cause, the temp artifact it staged no longer
\* exists in the cache's temp area
TempRemovedOnError ==
    \A p \in Procs :
        (cop[p].pc = "done" /\ cop[p].err # "") => stage[p] = Absent

\* the errors of a rename onto a destination that exists
Collision == {"EEXIST", "ENOTEMPTY", "EISDIR", "ENOTDIR"}

\* C21: a commit to a key whose destination already exists is never reported
\* as an error: under every interleaving of writers committing to the same
\* key each put returns success
CollisionNeverAnError ==
    \A p \in Procs :
        (cop[p].op \in {"put_file", "put_dir"} /\ cop[p].pc = "done")
            => cop[p].err \notin Collision

\* the same for writers of directory entries only
DirCollisionNeverAnError ==
    \A p \in Procs :
        (cop[p].op = "put_dir" /\ cop[p].pc = "done") => cop[p].err # "ENOTEMPTY"

\* C22: when the rename in MoveFile(src, dst) fails because src is on
\* another file system than the cache root, MoveFile still returns success,
\* with the artifact committed at root/dst and src removed, for a file and
\* for a directory
MoveFallbackSucceeds ==
    \A p \in Procs :
        (cop[p].op = "move_file" /\ cop[p].pc = "done" /\ cop[p].cause = "EXDEV")
            => /\ cop[p].err = ""
               /\ src[p] = Absent

\* ---- two processes build the same derivation through one cache root ----

\* one step of BuildRecursive(fsc, d, tmpDirBase) in process p; the builder
\* succeeds and leaves the artifact of the derivation, the same in every
\* process; no lock is taken anywhere
RaceStep(p) ==
    \/ snaps[p] = <<>> /\ BRCall(p)
    \/ BRCheck(p)
    \/ BRDeps(p)
    \/ \E env \in Envs : BuildTempDir(p, env)
    \/ \E out \in BuilderOutputs \ {Absent} :
          /\ \A q \in Procs : /\ src[q].kind \in {"none", out.kind}
                              /\ stage[q].kind \in {"none", out.kind}
          /\ root[Top].kind \in {"none", out.kind}
          /\ BuildRun(p, 0, out, "")
    \/ BuildChmod(p)
    \/ BuildMove(p)
    \/ BuildCopy(p)
    \/ BuildCommit(p)
    \/ BuildMoved(p)
    \/ BuildReturn(p)

\* an empty cache, a derivation without dependencies, the temp dir base on
\* the file system of the cache root or on another one
InitRace ==
    /\ root = [d \in Derivs |-> Absent]
    /\ stage = [p \in Procs |-> Absent]
    /\ src = [p \in Procs |-> Absent]
    /\ cop = [p \in Procs |-> Idle]
    /\ whole = root
    /\ first = root
    /\ graph = [d \in Derivs |-> <<>>]
    /\ tmpDirBase \in {"cache", "other"}
    /\ stack = [p \in Procs |-> <<>>]
    /\ bpc = [p \in Procs |-> "idle"]
    /\ bld = [p \in Procs |-> NoBuild]
    /\ runs = [p \in Procs |-> <<>>]
    /\ snaps = [p \in Procs |-> <<>>]
    /\ invoked = [d \in Derivs |-> 0]
    /\ commits = [d \in Derivs |-> 0]
    /\ hist = [tmps |-> 0, clean |-> TRUE, left |-> 0]
    /\ FreezeOff
    /\ LoadOff

NextRace == \E p \in Procs : RaceStep(p) /\ UNCHANGED <<freezeVars, loadVars>>

SpecRace == InitRace /\ [][NextRace]_vars

\* C23: two processes that run BuildRecursive on the same derivation at the
\* same time through one cache root both return success, and the cache ends
\* with an entry at d.ID, for a file artifact and for a directory artifact
ConcurrentBuildsSucceed ==
    (\A p \in Procs : Len(runs[p]) = 1)
        => /\ \A p \in Procs : runs[p][1] = Nil
           /\ Exists(root, Top)

\* the same for a file artifact and the temp dir base on the cache's file
\* system
ConcurrentFileBuildsSucceed ==
    (tmpDirBase = "cache" /\ root[Top].kind = "file"
       /\ \A p \in Procs : Len(runs[p]) = 1)
        => \A p \in Procs : runs[p][1] = Nil

----------------------------------------------------------------------------
(* The module loader.  A string is the sequence of its characters.         *)

DotStar == <<".", "s", "t", "a", "r">>
DefaultStar == <<"d", "e", "f", "a", "u", "l", "t">> \o DotStar

\* strings.Index(s, c) for a one-character c: the position of the first c in
\* s, counted from 1; 0 when there is none (Go: from 0, and -1)
Index(s, c) ==
    Only({IF \E i \in 1..Len(t) : t[i] = c
          THEN CHOOSE i \in 1..Len(t) : t[i] = c /\ \A j \in 1..(i - 1) : t[j] # c
          ELSE 0 : t \in {s}})

\* strings.Contains(s, substr)
Contains(s, substr) ==
    \E t \in {s} :
        \E i \in 1..(Len(t) - Len(substr) + 1) : SubSeq(t, i, i + Len(substr) - 1) = substr

\* strings.HasSuffix(s, suffix)
HasSuffix(s, suffix) ==
    \E t \in {s} :
        /\ Len(t) >= Len(suffix)
        /\ SubSeq(t, Len(t) - Len(suffix) + 1, Len(t)) = suffix

\* the position of the k-th separator of t; 0 before the first, Len(t) + 1
\* after the last
SepAt(t, k) ==
    IF k = 0 THEN 0
    ELSE IF k > Cardinality({i \in 1..Len(t) : t[i] = "/"}) THEN Len(t) + 1
    ELSE CHOOSE i \in 1..Len(t) :
            t[i] = "/" /\ Cardinality({j \in 1..i : t[j] = "/"}) = k

\* the elements of a path between its separators
Split(s) ==
    Only({[k \in 1..(Cardinality({i \in 1..Len(t) : t[i] = "/"}) + 1) |->
              SubSeq(t, SepAt(t, k - 1) + 1, SepAt(t, k) - 1)] : t \in {s}})

\* filepath.Clean's pass over the first n elements: empty elements and "."
\* are dropped, ".." takes the element before it away, stays when the path
\* is not rooted and nothing is before it, and is dropped at the root
RECURSIVE Lexical(_, _, _)
Lexical(elems, n, rooted) ==
    IF n = 0 THEN <<>>
    ELSE Only({IF elems[n] \in {<<>>, <<".">>} THEN out
               ELSE IF elems[n] # <<".", ".">> THEN Append(out, elems[n])
               ELSE IF out # <<>> /\ out[Len(out)] # <<".", ".">>
                    THEN SubSeq(out, 1, Len(out) - 1)
               ELSE IF rooted THEN out
               ELSE Append(out, elems[n]) : out \in {Lexical(elems, n - 1, rooted)}})

\* strings.Join(elems[:n], "/")
RECURSIVE Joined(_, _)
Joined(elems, n) ==
    IF n = 0 THEN <<>>
    ELSE IF n = 1 THEN elems[1]
    ELSE Joined(elems, n - 1) \o <<"/">> \o elems[n]

\* filepath.Clean of a non-empty path, before the "." for an empty result
Cleaned(p) ==
    (IF p[1] = "/" THEN <<"/">> ELSE <<>>)
        \o Only({Joined(kept, Len(kept)) :
                    kept \in {Only({Lexical(elems, Len(elems), p[1] = "/") :
                                       elems \in {Split(p)}})}})

\* filepath.Clean(path)
Clean(path) ==
    Only({IF p = <<>> THEN <<".">>
          ELSE IF Cleaned(p) = <<>> THEN <<".">>
          ELSE Cleaned(p) : p \in {path}})

\* filepath.Join(a, b): the elements from the first non-empty one on, joined
\* by the separator and cleaned; "" when both are empty
Join(a, b) ==
    IF a # <<>> THEN Clean(a \o <<"/">> \o b)
    ELSE IF b # <<>> THEN Clean(b)
    ELSE <<>>

\* parseModule(s): (pkg, mod); without a ':' the package is ""
parseModule(s) ==
    LET i == Index(s, ":")
    IN IF i = 0 THEN [pkg |-> <<>>, mod |-> s]
       ELSE [pkg |-> SubSeq(s, 1, i - 1), mod |-> SubSeq(s, i + 1, Len(s))]

packageNotFoundErr(p) == [kind |-> "packageNotFound", pkg |-> p]

moduleNotFoundErr(p, module) == [kind |-> "moduleNotFound", pkg |-> p, module |-> module]

\* what resolveModule returns: (string, string, error)
Resolved(r, path, err) == [root |-> r, path |-> path, err |-> err]

\* a resolveModule that lets every module name through
resolveModuleUnchecked(r, packages, p, module) ==
    IF p # <<>> /\ p \notin DOMAIN packages
    THEN Resolved(<<>>, <<>>, packageNotFoundErr(p))
    ELSE LET found == IF p # <<>> THEN packages[p] ELSE r
             path == Join(found, module)
         IN Resolved(found,
                     IF ~HasSuffix(module, DotStar) THEN Join(path, DefaultStar)
                     ELSE path,
                     Nil)

\* resolveModule(root, packages, pkg, module)
resolveModule(r, packages, p, module) ==
    IF p # <<>> /\ p \notin DOMAIN packages
    THEN Resolved(<<>>, <<>>, packageNotFoundErr(p))
    ELSE LET found == IF p # <<>> THEN packages[p] ELSE r
             path == Join(found, module)
         IN IF Contains(module, <<".", ".">>)
            THEN Resolved(<<>>, <<>>, moduleNotFoundErr(p, module))
            ELSE Resolved(found,
                          IF ~HasSuffix(module, DotStar) THEN Join(path, DefaultStar)
                          ELSE path,
                          Nil)

\* ---- resolveModule on its own ----

\* the pieces a module name is made of, and how many of them
MaxParts == 3
Parts == {<<"a">>, <<".">>, <<"/">>, DotStar}

RECURSIVE Names(_)
Names(n) ==
    IF n = 0 THEN {<<>>}
    ELSE Names(n - 1) \cup {m \o q : m \in Names(n - 1), q \in Parts}

\* findRoot returns a directory as os.Getwd and filepath.Dir give it: an
\* absolute, clean path
Roots == {<<"/">>, <<"/", "r">>}

VendorDirectoryName == <<".", "v", "e", "n", "d", "o", "r">>

\* loadPackages(root): the directories of root/.vendor that hold a
\* WORKSPACE file, here those of `found`
loadPackages(r, found) ==
    [p \in found |-> Join(Join(r, VendorDirectoryName), p)]

PkgNames == {<<"p">>, <<"q">>}

InitResolve ==
    /\ \E r \in Roots, found \in SUBSET {<<"p">>}, p \in PkgNames \cup {<<>>},
          module \in Names(MaxParts) :
          calls = <<[root |-> r, packages |-> loadPackages(r, found),
                     pkg |-> p, module |-> module]>>
    /\ ret = <<>>
    /\ scripts = <<>> /\ cache = <<>> /\ got = <<>> /\ ran = <<>>
    /\ CacheOff /\ root = <<>>
    /\ BuildOff
    /\ FreezeOff

\* resolveModule is called with the arguments drawn
Resolve ==
    /\ ret = <<>>
    /\ ret' = <<resolveModule(calls[1].root, calls[1].packages, calls[1].pkg,
                              calls[1].module)>>
    /\ UNCHANGED <<cacheVars, buildVars, freezeVars, scripts, cache, calls, got, ran>>

NextResolve == Resolve

SpecResolve == InitResolve /\ [][NextResolve]_vars

\* where the file system's lookup of a path arrives after its first n
\* elements: "" and "." stay, ".." goes to the parent (the root is its own)
RECURSIVE Walk(_, _)
Walk(elems, n) ==
    IF n = 0 THEN <<>>
    ELSE Only({IF elems[n] \in {<<>>, <<".">>} THEN at
               ELSE IF elems[n] = <<".", ".">>
                    THEN SubSeq(at, 1, Len(at) - (IF at = <<>> THEN 0 ELSE 1))
               ELSE Append(at, elems[n]) : at \in {Walk(elems, n - 1)}})

\* the directory entries from / down to what an absolute path names
Arrives(path) == Only({Walk(elems, Len(elems)) : elems \in {Split(path)}})

HasDotDot(module) ==
    \E i \in 1..(Len(module) - 1) : module[i] = "." /\ module[i + 1] = "."

EndsInStar(module) ==
    /\ Len(module) >= 5
    /\ [i \in 1..5 |-> module[Len(module) - 5 + i]] = DotStar

\* C26: resolveModule(root, packages, pkg, module) returns ("", "",
\* packageNotFoundErr(pkg)) when pkg is not empty and not in packages;
\* otherwise ("", "", moduleNotFoundErr{pkg, module}) when module contains
\* ".."; otherwise the package root (root for an empty pkg, packages[pkg]
\* else) and a path that names packageRoot/module when module ends in
\* ".star" and packageRoot/module/default.star when not; a returned path is
\* inside the returned package root
ResolveContract ==
    ret # <<>> =>
        LET q == calls[1]
            known == q.pkg = <<>> \/ q.pkg \in DOMAIN q.packages
            packageRoot == IF q.pkg = <<>> THEN q.root ELSE q.packages[q.pkg]
            named == packageRoot \o <<"/">> \o q.module \o
                        (IF EndsInStar(q.module) THEN <<>> ELSE <<"/">> \o DefaultStar)
        IN IF ~known
           THEN ret[1] = Resolved(<<>>, <<>>, packageNotFoundErr(q.pkg))
           ELSE IF HasDotDot(q.module)
           THEN ret[1] = Resolved(<<>>, <<>>, moduleNotFoundErr(q.pkg, q.module))
           ELSE /\ ret[1].err = Nil
                /\ ret[1].root = packageRoot
                /\ ret[1].path # <<>> /\ ret[1].path[1] = "/"
                /\ Arrives(ret[1].path) = Arrives(named)
                /\ Len(Arrives(packageRoot)) <= Len(Arrives(ret[1].path))
                /\ SubSeq(Arrives(ret[1].path), 1, Len(Arrives(packageRoot)))
                      = Arrives(packageRoot)

\* a module of a vendored package resolved to the default file of a
\* directory below the package root
ResolvedDefaultInPackage ==
    /\ ret # <<>>
    /\ calls[1].pkg = <<"p">>
    /\ calls[1].module = <<"a", "/", "a">>
    /\ ret[1].err = Nil
    /\ ret[1].path = Join(calls[1].packages[<<"p">>], <<"a", "/", "a", "/">> \o DefaultStar)

\* ---- one invocation: execModule(module, makeLoader(root, packages)) ----

\* load statements a module script may hold
MaxLoads == 2

AStar == <<"a">> \o DotStar
WorkspaceRoot == <<"/", "r">>
Packages == loadPackages(WorkspaceRoot, {<<"p">>})

\* the addresses load statements and the command line name: a module of the
\* loading package, the same module of the vendored package p, a module of
\* a package that is not vendored
Addrs == {AStar, <<"p", ":">> \o AStar, <<"q", ":">> \o AStar}

\* the module files there may be
ModulePaths == {Join(WorkspaceRoot, AStar), Join(Packages[<<"p">>], AStar)}

\* a module file: whether it can be read, and the addresses of its load
\* statements in order
Scripts ==
    {[exists |-> FALSE, loads |-> <<>>]}
        \cup {[exists |-> TRUE, loads |-> l] : l \in ListsUpTo(Addrs, MaxLoads)}

\* the three states of cache[addr]: no key, the nil placeholder, a cacheEntry
Unset == [state |-> "unset"]
NilEntry == [state |-> "nil"]
cacheEntry(globals, err) == [state |-> "entry", globals |-> globals, err |-> err]

\* the globals of the module at `file` after n of its load statements
Binds(file, n) == [file |-> file, loaded |-> n]
NoGlobals == Binds(<<>>, 0)

CycleErr == [kind |-> "Cycle in load graph"]

\* errors.Wrapf(err, "Loading module '%s'", module) around "Module '%s' not
\* found in package '%s'"
ReadErr(p, module) ==
    [kind |-> "Loading module", module |-> module,
     cause |-> [kind |-> "not found", pkg |-> p, module |-> module]]

\* the error of a script whose load statement failed
LoadFailed(addr, err) == [kind |-> "cannot load", module |-> addr, cause |-> err]

\* a loader that leaves no placeholder
InProgressUnmarked(c, addr) == c

\* cache[addr] = nil
InProgress(c, addr) == [c EXCEPT ![addr] = NilEntry]

\* a loader that does not keep the entry
MemoDropped(c, addr, e) == c

\* cache[addr] = e
Memo(c, addr, e) == [c EXCEPT ![addr] = e]

\* a call of the load function made by makeLoaderHelper(r, ...) for addr;
\* during: a load of addr is in progress when the call is made
Call(addr, r) ==
    [addr |-> addr, root |-> r, pc |-> "load", packageRoot |-> <<>>, path |-> <<>>,
     i |-> 0, during |-> \E j \in 1..Len(calls) : calls[j].addr = addr]

Innermost == calls[Len(calls)]

\* the innermost load call returns (globals, err)
ReturnLoad(globals, err) ==
    /\ calls' = SubSeq(calls, 1, Len(calls) - 1)
    /\ ret' = <<[globals |-> globals, err |-> err]>>
    /\ got' = [got EXCEPT ![Innermost.addr] =
                  Append(@, [globals |-> globals, err |-> err,
                             during |-> Innermost.during])]

\* the recursion the loader can reach is one call per address; a deeper stack
\* is not followed
MaxDepth == Cardinality(Addrs) + 2

\* execModule(module, load): the load function is called for the module
\* named on the command line
ExecModule(module) ==
    /\ calls = <<>> /\ ret = <<>>
    /\ calls' = <<Call(module, WorkspaceRoot)>>
    /\ UNCHANGED <<cacheVars, buildVars, freezeVars, scripts, cache, ret, got, ran>>

\* the load function from its entry to its return or to starlark.ExecFile
Load ==
    /\ calls # <<>> /\ Innermost.pc = "load"
    /\ \E addr \in {Innermost.addr}, e \in {cache[Innermost.addr]},
          m \in {parseModule(Innermost.addr)},
          r \in {resolveModule(Innermost.root, Packages,
                               parseModule(Innermost.addr).pkg,
                               parseModule(Innermost.addr).mod)} :
          IF e.state = "entry"
          THEN ReturnLoad(e.globals, e.err) /\ UNCHANGED <<cache, ran>>
          ELSE IF e.state = "nil"
          THEN ReturnLoad(NoGlobals, CycleErr) /\ UNCHANGED <<cache, ran>>
          ELSE /\ cache' = InProgress(cache, addr)
               /\ IF r.err # Nil
                  THEN ReturnLoad(NoGlobals, r.err) /\ UNCHANGED ran
                  ELSE IF ~(r.path \in DOMAIN scripts /\ scripts[r.path].exists)
                  THEN /\ ReturnLoad(NoGlobals, ReadErr(m.pkg, m.mod))
                       /\ ran' = [ran EXCEPT ![addr].reads = @ + 1]
                  ELSE /\ calls' = [calls EXCEPT ![Len(calls)] =
                                       [@ EXCEPT !.pc = "exec", !.packageRoot = r.root,
                                                 !.path = r.path, !.i = 1]]
                       /\ ran' = [ran EXCEPT ![addr].reads = @ + 1,
                                             ![addr].execs = @ + 1]
                       /\ UNCHANGED <<ret, got>>
    /\ UNCHANGED <<cacheVars, buildVars, freezeVars, scripts>>

\* starlark.ExecFile goes on: the next load statement calls the load function
\* of the thread, made for the package root; after the last one the globals
\* are complete, the entry is stored and the load function returns it
ExecStep ==
    /\ calls # <<>> /\ Innermost.pc = "exec"
    /\ LET f == Innermost
           loads == scripts[f.path].loads
       IN IF f.i <= Len(loads)
          THEN /\ Len(calls) < MaxDepth
               /\ calls' = Append([calls EXCEPT ![Len(calls)].pc = "wait"],
                                  Call(loads[f.i], f.packageRoot))
               /\ ret' = <<>>
               /\ UNCHANGED <<cache, got>>
          ELSE /\ cache' = Memo(cache, f.addr, cacheEntry(Binds(f.path, f.i - 1), Nil))
               /\ ReturnLoad(Binds(f.path, f.i - 1), Nil)
    /\ UNCHANGED <<cacheVars, buildVars, freezeVars, scripts, ran>>

\* a load statement's call has returned: the script goes on, or fails with
\* what it had bound so far; the entry is stored and returned
ExecResume ==
    /\ calls # <<>> /\ Innermost.pc = "wait" /\ ret # <<>>
    /\ LET f == Innermost
           err == LoadFailed(scripts[f.path].loads[f.i], ret[1].err)
       IN IF ret[1].err = Nil
          THEN /\ calls' = [calls EXCEPT ![Len(calls)].pc = "exec",
                                         ![Len(calls)].i = @ + 1]
               /\ ret' = <<>>
               /\ UNCHANGED <<cache, got>>
          ELSE /\ cache' = Memo(cache, f.addr, cacheEntry(Binds(f.path, f.i - 1), err))
               /\ ReturnLoad(Binds(f.path, f.i - 1), err)
    /\ UNCHANGED <<cacheVars, buildVars, freezeVars, scripts, ran>>

InitLoad ==
    /\ scripts \in [ModulePaths -> Scripts]
    /\ cache = [a \in Addrs |-> Unset]
    /\ calls = <<>>
    /\ ret = <<>>
    /\ got = [a \in Addrs |-> <<>>]
    /\ ran = [a \in Addrs |-> [reads |-> 0, execs |-> 0]]
    /\ CacheOff /\ root = <<>>
    /\ BuildOff
    /\ FreezeOff

NextLoad ==
    \/ \E module \in Addrs : ExecModule(module)
    \/ Load
    \/ ExecStep
    \/ ExecResume

SpecLoad == InitLoad /\ [][NextLoad]_vars

\* the interpreter and the loader run on whenever they can
SpecLoadLive == SpecLoad /\ WF_vars(NextLoad)

\* top-level calls of one load function for the same address
MaxCalls == 2

\* the load function makeLoader returned is called again, for any address,
\* by whoever holds it, after its previous call has returned: the cache map
\* of the closure is the one the earlier calls left
LoadAgain(module) ==
    /\ calls = <<>> /\ ret # <<>>
    /\ Len(got[module]) < MaxCalls
    /\ calls' = <<Call(module, WorkspaceRoot)>>
    /\ ret' = <<>>
    /\ UNCHANGED <<cacheVars, buildVars, freezeVars, scripts, cache, got, ran>>

NextReload ==
    \/ \E module \in Addrs : ExecModule(module)
    \/ \E module \in Addrs : LoadAgain(module)
    \/ Load
    \/ ExecStep
    \/ ExecResume

SpecReload == InitLoad /\ [][NextReload]_vars

\* ---- one invocation over packages that each have a module lib.star ----

LibStar == <<"l", "i", "b">> \o DotStar
LibAddrs == Addrs \cup {LibStar}
LibPaths == ModulePaths \cup {Join(WorkspaceRoot, LibStar), Join(Packages[<<"p">>], LibStar)}

\* a.star of either package loads lib.star and p:a.star in any order; a
\* lib.star holds no load statement
LibScripts(path) ==
    IF HasSuffix(path, LibStar)
    THEN {[exists |-> TRUE, loads |-> <<>>], [exists |-> FALSE, loads |-> <<>>]}
    ELSE {[exists |-> TRUE, loads |-> l] :
             l \in ListsUpTo({LibStar, <<"p", ":">> \o AStar}, MaxLoads)}

InitLib ==
    /\ scripts \in {f \in [LibPaths -> UNION {LibScripts(path) : path \in LibPaths}] :
                        \A path \in LibPaths : f[path] \in LibScripts(path)}
    /\ cache = [a \in LibAddrs |-> Unset]
    /\ calls = <<>>
    /\ ret = <<>>
    /\ got = [a \in LibAddrs |-> <<>>]
    /\ ran = [a \in LibAddrs |-> [reads |-> 0, execs |-> 0]]
    /\ CacheOff /\ root = <<>>
    /\ BuildOff
    /\ FreezeOff

NextLib ==
    \/ \E module \in LibAddrs : ExecModule(module)
    \/ Load
    \/ ExecStep
    \/ ExecResume

SpecLib == InitLib /\ [][NextLib]_vars

\* what the loads of address a returned that were called while no load of a
\* was in progress
Outside(a) == SelectSeq(got[a], LAMBDA x : ~x.during)

\* C24: within one loader the file of a module identifier is read and run at
\* most once, and every later load of the identifier returns the bindings
\* and the error of the first completed load
LoadedOnce ==
    \A a \in Addrs :
        /\ ran[a].reads <= 1
        /\ ran[a].execs <= 1
        /\ \A i \in 1..Len(Outside(a)) :
              /\ Outside(a)[i].globals = Outside(a)[1].globals
              /\ Outside(a)[i].err = Outside(a)[1].err

\* a module was loaded, and loaded again after that load was complete
LoadedAgain ==
    \E a \in Addrs :
        /\ Len(Outside(a)) >= 2
        /\ Outside(a)[1].err = Nil
        /\ ran[a].execs = 1

\* no address is being loaded twice at once
NoNestedReload ==
    \A i, j \in 1..Len(calls) :
        (i < j /\ calls[i].addr = calls[j].addr) => (j = Len(calls) /\ calls[j].pc = "load")

\* every load called while a load of its address was in progress has
\* returned the cycle error and no bindings
CycleAnswered ==
    \A a \in Addrs : \A i \in 1..Len(got[a]) :
        got[a][i].during => (got[a][i].err = CycleErr /\ got[a][i].globals = NoGlobals)

\* bindings returned without an error are those of the whole script
WholeBindings ==
    \A a \in Addrs : \A i \in 1..Len(got[a]) :
        got[a][i].err = Nil =>
            got[a][i].globals.loaded = Len(scripts[got[a][i].globals.file].loads)

Finished == calls = <<>> /\ ret # <<>>

KeysNeverShrink ==
    [][\A k \in DOMAIN root : Exists(root, k) => Exists(root', k)]_vars

\* C28: on every return path of Build (builder failure, missing output, chmod
\* failure, move failure, success) the temp directory of the build no longer
\* exists when Build has returned
TempDirGone == hist.left = 0

\* the same on the return paths other than a failed move
TempDirGoneUnlessMoveFailed ==
    (\A p \in DOMAIN runs : \A i \in 1..Len(runs[p]) : runs[p][i].kind # "move")
        => hist.left = 0

\* the bytes of a list of strings, one after the other
RECURSIVE InOrder(_)
InOrder(ss) == IF ss = <<>> THEN <<>> ELSE Head(ss) \o InOrder(Tail(ss))

\* C29: the stream the hasher of a target absorbs is its name, its builder,
\* each env entry in order, then the hash of each frozen argument in order;
\* the hash of an argument is the one it has when it is frozen alone,
\* whatever its siblings and its position
TargetStream ==
    \A i \in 1..Len(fruns) :
        fruns[i].err = "" =>
            /\ fruns[i].hash =
                  Sum(fruns[i].target.name \o fruns[i].target.builder
                         \o InOrder(fruns[i].target.env)
                         \o InOrder([m \in 1..Len(fruns[i].vals) |-> fruns[i].vals[m].Hash]))
            /\ \A m \in 1..Len(fruns[i].target.args) :
                  \A alone \in {freezeArg(fruns[i].target.args[m], fruns[i].pkg,
                                          Answers(fruns[i]), fruns[i].before)} :
                      alone.err = "" => fruns[i].vals[m].Hash = alone.Hash

\* a target with an env entry and an argument was frozen, and a target with
\* two arguments, the second one hashing a file
StreamOfEnvAndArgs ==
    /\ \E i \in 1..Len(fruns) :
          /\ fruns[i].err = ""
          /\ fruns[i].target.env # <<>>
          /\ fruns[i].target.args # <<>>
    /\ \E j \in 1..Len(fruns) :
          /\ fruns[j].err = ""
          /\ Len(fruns[j].target.args) >= 2
          /\ fruns[j].target.args[2].kind \in {"path", "glob"}

\* C30: for a file ingested by a Path argument the hasher absorbs the
\* relative path, the three mode octets, then the content bytes once and in
\* order and no other byte, whatever the sizes of the reads; the same content
\* bytes reach the cache sink
FileStream ==
    \A i \in 1..Len(fruns) :
        fruns[i].err = "" =>
            \A m \in 1..Len(fruns[i].target.args) :
                fruns[i].target.args[m].kind = "path" =>
                    \A path \in {fruns[i].target.args[m].p} :
                        /\ fruns[i].vals[m].Hash =
                              Sum(path \o Octets(fruns[i].pkg[path].mode)
                                       \o fruns[i].pkg[path].body)
                        /\ fruns[i].vals[m].entries[1].node.body = fruns[i].pkg[path].body

\* the part about the cache sink alone
FileSinkContent ==
    \A i \in 1..Len(fruns) :
        fruns[i].err = "" =>
            \A m \in 1..Len(fruns[i].target.args) :
                fruns[i].target.args[m].kind = "path" =>
                    fruns[i].vals[m].entries[1].node.body
                        = fruns[i].pkg[fruns[i].target.args[m].p].body
\* the run of FreezeTarget that has just returned: every run is looked at
\* once, in the state its return leaves
JustReturned == IF fz.pc \in {"edit", "done"} THEN {Len(fruns)} ELSE {}

\* C31: for every target that freezes successfully the derivation has the
\* target's builder and its env unchanged, as many args as the target has
\* arguments, args[m] being the value the m-th argument freezes to, and as
\* dependencies the derivations of the frozen arguments concatenated in
\* argument order
DerivationFields ==
    \A i \in JustReturned :
        fruns[i].err = "" =>
            /\ fruns[i].d.Builder = fruns[i].target.builder
            /\ fruns[i].d.Env = fruns[i].target.env
            /\ Len(fruns[i].d.Args) = Len(fruns[i].target.args)
            /\ \A m \in 1..Len(fruns[i].target.args) :
                  \E frozen \in {freezeArg(fruns[i].target.args[m], fruns[i].pkg,
                                            Answers(fruns[i]), fruns[i].root)} :
                      /\ frozen.err = ""
                      /\ fruns[i].d.Args[m] = frozen.Value
                      /\ fruns[i].vals[m].Derivations = frozen.Derivations
            /\ fruns[i].d.Dependencies =
                  Flatten([m \in 1..Len(fruns[i].vals) |-> fruns[i].vals[m].Derivations])

\* a target with an env was frozen whose first and last arguments carry
\* different derivations, a Sub argument without one in between
TwoDerivationsFrozen ==
    \E i \in 1..Len(fruns) :
        /\ fruns[i].err = ""
        /\ fruns[i].target.env # <<>>
        /\ Len(fruns[i].d.Args) = 3
        /\ Len(fruns[i].d.Dependencies) = 2
        /\ fruns[i].d.Dependencies[1] # fruns[i].d.Dependencies[2]
        /\ fruns[i].d.Dependencies[1].ID = fruns[i].d.Args[1]
        /\ fruns[i].d.Dependencies[2].ID = fruns[i].d.Args[3]

\* the message of a Sub after its first n substitutions, vals being what the
\* substitution values froze to
RECURSIVE Substituted(_, _, _, _)
Substituted(format, subs, vals, n) ==
    IF n = 0 THEN format
    ELSE ReplaceAll(Substituted(format, subs, vals, n - 1),
                    Placeholder(subs[n].Key), vals[n].Value)

\* C32: a frozen Sub is its format with the substitutions applied one after
\* the other in list order, each replacing every occurrence of ${key} by the
\* frozen value, so a placeholder that the value of an earlier substitution
\* brings in is replaced by a later substitution of that key and one that a
\* later value brings in is left as it is; its hash is the digest of the
\* format and then, for each substitution, the key followed by the child hash
SubInOrder ==
    \A i \in JustReturned :
        fruns[i].err = "" =>
            \A m \in 1..Len(fruns[i].target.args) :
                fruns[i].target.args[m].kind = "sub" =>
                    \E sub \in {fruns[i].target.args[m]} :
                    \E vals \in {[k \in 1..Len(sub.subs) |->
                                    freezeArg(sub.subs[k].Value, fruns[i].pkg,
                                              Answers(fruns[i]), fruns[i].root)]} :
                        /\ \A k \in 1..Len(vals) : vals[k].err = ""
                        /\ fruns[i].vals[m].Value =
                              Substituted(sub.format, sub.subs, vals, Len(vals))
                        /\ fruns[i].vals[m].Hash =
                              Sum(sub.format
                                  \o Flatten([k \in 1..Len(vals) |->
                                                 sub.subs[k].Key \o vals[k].Hash]))
                        /\ \A k \in 1..Len(vals) :
                              \* the last value is put in and brings in the
                              \* key of k, which no later substitution has
                              (/\ k < Len(vals)
                               /\ Occurs(Placeholder(sub.subs[Len(vals)].Key),
                                         Substituted(sub.format, sub.subs, vals,
                                                     Len(vals) - 1))
                               /\ Occurs(Placeholder(sub.subs[k].Key), vals[Len(vals)].Value)
                               /\ \A j \in (k + 1)..Len(vals) :
                                     sub.subs[j].Key # sub.subs[k].Key)
                              => Occurs(Placeholder(sub.subs[k].Key), fruns[i].vals[m].Value)

\* a Sub was frozen in which the value of the first substitution brings in
\* the placeholder of the second and the value of the second that of the
\* first: the former is replaced, the latter stays
PlaceholderBroughtIn ==
    \E i \in 1..Len(fruns) :
        /\ fruns[i].err = ""
        /\ \E m \in 1..Len(fruns[i].target.args) :
              /\ fruns[i].target.args[m].kind = "sub"
              /\ Len(fruns[i].target.args[m].subs) = 2
              /\ fruns[i].target.args[m].subs[1].Value = StringArg(Placeholder(KeyJ))
              /\ fruns[i].target.args[m].subs[2]
                    = Substitution(KeyJ, StringArg(Placeholder(KeyK)))
              /\ fruns[i].d.Args[m] = Placeholder(KeyK)

\* C33: every derivation the freezer emits carries in its Hash field the
\* digest whose hex encoding, "-" and the target's name make up its ID
DerivationCarriesHash ==
    \A i \in 1..Len(fruns) :
        fruns[i].err = "" =>
            /\ fruns[i].d.Hash = fruns[i].hash
            /\ fruns[i].d.ID = EncodeToString(fruns[i].d.Hash) \o <<45>>
                                   \o fruns[i].target.name

\* the step in which the Build of a dependency returns an error
DependencyFails(p) ==
    /\ bpc[p] = "cleanup" /\ bpc'[p] # "cleanup"
    /\ bld[p].err # Nil
    /\ Len(stack[p]) > 1

\* C34: when the Build of a dependency fails during BuildRecursive(d), the
\* run returns that error at once: the failed builder was invoked once, the
\* run is over (no later sibling is visited), the builder of d and of every
\* ancestor of the failed dependency was not invoked and their ids are not
\* in the cache, and the dependencies that returned before are still there
DependencyFailureStops ==
    [][\A p \in DOMAIN bpc :
          DependencyFails(p) =>
              /\ runs'[p] = Append(runs[p], bld[p].err)
              /\ stack'[p] = <<>> /\ bpc'[p] = "idle"
              /\ invoked'[TopFrame(p).d] = 1
              /\ \A j \in 1..(Len(stack[p]) - 1) :
                    /\ invoked'[stack[p][j].d] = 0
                    /\ ~Exists(root', stack[p][j].d)
                    /\ \A k \in 1..Len(stack[p][j].seen) :
                          Exists(root', stack[p][j].seen[k])]_vars

\* the run of a top derivation with two dependencies is over: the first
\* dependency was built and committed, the builder of the second failed
SecondDependencyFailed ==
    \E p \in DOMAIN runs :
        /\ Len(runs[p]) = 1 /\ runs[p][1] # Nil /\ bpc[p] = "idle"
        /\ Len(graph[Top]) = 2
        /\ invoked[graph[Top][1]] = 1 /\ commits[graph[Top][1]] = 1
        /\ Exists(root, graph[Top][1])
        /\ invoked[graph[Top][2]] = 1 /\ ~Exists(root, graph[Top][2])
        /\ invoked[Top] = 0 /\ ~Exists(root, Top)

\* C35: in one BuildRecursive run over an acyclic graph with builders that
\* succeed and write their output, the builder of each derivation is invoked
\* at most once, however many paths lead to the derivation
BuiltAtMostOnce ==
    hist.clean => \A d \in DOMAIN invoked : invoked[d] <= 1

\* a run from an empty cache is over without error over a graph in which the
\* first derivation is a dependency of the top one and of its other
\* dependency: every builder ran once
SharedDependencyBuilt ==
    \E p \in DOMAIN runs :
        /\ runs[p] = <<Nil>> /\ bpc[p] = "idle"
        /\ \A d \in DOMAIN root : snaps[p][1].root[d] = Absent
        /\ Range(graph[Top]) = {1, 2} /\ graph[2] = <<1>>
        /\ hist.clean
        /\ \A d \in DOMAIN invoked : invoked[d] = 1 /\ commits[d] = 1

\* (old_mode & ~0o777) | 0o555 on every node of a tree
RECURSIVE ReadExecuteOnly(_)
ReadExecuteOnly(n) ==
    IF n.kind = "dir"
    THEN Dir([r \in DOMAIN n.files |-> ReadExecuteOnly(n.files[r])],
             (n.mode \ Bits(511)) \cup Bits(365))
    ELSE File(n.body, (n.mode \ Bits(511)) \cup Bits(365))

\* C36: the immutability pass of Build sets the mode of every path under the
\* output to (old_mode & ~0o777) | 0o555: the write bits are cleared, the
\* read and execute bits of user, group and other are all set, the bits
\* above the low nine are as they were
ImmutableModes ==
    [][\A p \in DOMAIN bpc :
          (bpc[p] = "chmod" /\ bpc'[p] = "move") => src'[p] = ReadExecuteOnly(src[p])]_vars

\* C37: the staging area of the cache the command-line tool makes is on the
\* file system of the cache root, so the commit rename of put_file and
\* put_dir never fails as a rename across file systems, wherever the system
\* temp directory is mounted
StagingOnCacheFileSystem ==
    \A p \in DOMAIN cop :
        cop[p].op \in {"put_file", "put_dir"} => cop[p].err # "EXDEV"

\* C38: the loader answers "Cycle in load graph" for an address only when a
\* load of that address is in progress at the moment of the call; a load of
\* an address whose earlier load failed before execution (package not found,
\* module path rejected, file missing) is not in progress and is answered
\* with that failure again
CycleOnlyInProgress ==
    \A a \in DOMAIN got : \A i \in 1..Len(got[a]) :
        got[a][i].err = CycleErr => got[a][i].during

\* C39: an address without a package part is resolved against the package
\* root of the module that issues the load: a load of such an address that
\* succeeds returns the bindings of the file of that name under the loading
\* module's package root, whatever was loaded before
OwnPackageModule ==
    [][(/\ calls # <<>> /\ calls' = SubSeq(calls, 1, Len(calls) - 1)
        /\ ret' # <<>> /\ ret'[1].err = Nil
        /\ parseModule(Innermost.addr).pkg = <<>>)
          => ret'[1].globals.file
                = resolveModule(Innermost.root, Packages, <<>>,
                                parseModule(Innermost.addr).mod).path]_vars

\* C40: MoveFile never loses the artifact: when MoveFile(src, dst) returns,
\* with nil or with an error of the rename or of the copy fallback, an
\* artifact that was at src is still at src or a complete entry is at
\* root/dst
MoveKeepsArtifact ==
    \A p \in DOMAIN cop :
        (cop[p].op = "move_file" /\ cop[p].pc = "done" /\ cop[p].cause # "ENOENT")
            => \/ src[p] # Absent
               \/ /\ Exists(root, cop[p].key)
                  /\ root[cop[p].key] = whole[cop[p].key]

====
